---- MODULE Spec2Model ----
(***************************************************************************)
(* Procurement tracker: the Convex document store (orders, products,       *)
(* additionalCosts, payments and the three link tables), the mutations of  *)
(* convex/orders.ts, products.ts, costs.ts and payments.ts, and the read   *)
(* path getOrderFull with the allocation helpers of convex/helpers.ts.     *)
(*                                                                         *)
(* Numbers.  Amounts, quantities and exchange rates are integers; a share  *)
(* of an allocated cost is an exact rational [n, d] in lowest terms with   *)
(* d > 0.  IEEE-754 rounding of the JavaScript numbers is not modelled.    *)
(*                                                                         *)
(* Tables.  A table whose rows carry a unique generated id (products,      *)
(* additionalCosts, payments) is a set of rows.  orders is a sequence in   *)
(* insertion order, because createOrder derives the orderId from the row   *)
(* count.  A link table is a bag of rows: the same pair may be stored in   *)
(* several rows, each with its own document _id.                           *)
(***************************************************************************)
EXTENDS Integers, Sequences, FiniteSets, Bags, TLC

VARIABLES db, pre, last, txn

vars == <<db, pre, last, txn>>

\* ------------------------------------------------------------------ bounds

\* Orders stored at the same time.
MaxOrders == 1
\* Products ever created (generated ids 1..MaxProducts).
MaxProducts == 2
\* Costs ever created.
MaxCosts == 1
\* Payments ever created (stubs and manual payments).
MaxPayments == 2
\* Length of a linkedProductIds / linkedCostIds argument array.
MaxLinkArgs == 1
\* The same in the specification of the cascading deletes.
MaxCascadeLinkArgs == 2

\* Line items, costs and cost-product link rows of the order whose
\* allocation is computed.
AllocMaxProducts == 3
AllocMaxCosts == 2
AllocMaxLinks == 2

\* Amounts (of either sign) and exchange rates handed to toILS.
MaxAmount == 4
MaxRate == 3

\* Orders stored at the same time where only orders are created and
\* deleted.
MaxOrderRows == 4

\* The milestone, milestone type and supplier rows that are ever inserted.
MaxSideRows == 2

\* The orders stored at a time where line items of one order meet payments
\* of another.
MaxLinkedOrders == 2

\* ------------------------------------------------------------- rationals

Abs(x) == IF x < 0 THEN -x ELSE x

RECURSIVE GCD(_, _)
GCD(a, b) == IF b = 0 THEN a ELSE GCD(b, a % b)

\* n / d in lowest terms, d > 0.
Frac(n, d) ==
  LET g == GCD(Abs(n), d)
  IN  [n |-> n \div g, d |-> d \div g]

Rat(i) == [n |-> i, d |-> 1]

RAdd(a, b) == Frac(a.n * b.d + b.n * a.d, a.d * b.d)

\* ------------------------------------------------------------ sequences

\* A set of generated ids in ascending order: generated ids grow with
\* creation time, so this is the order .collect() returns the rows in.
RECURSIVE SortIds(_)
SortIds(S) ==
  IF S = {} THEN <<>>
  ELSE LET x == CHOOSE y \in S : \A z \in S : y <= z
       IN  <<x>> \o SortIds(S \ {x})

\* Array.prototype.reduce((sum, x) => sum + x, 0) over integers.
RECURSIVE Sum(_)
Sum(s) == IF s = <<>> THEN 0 ELSE Head(s) + Sum(Tail(s))

\* The same accumulation over rationals.
RECURSIVE RSum(_)
RSum(s) == IF s = <<>> THEN Rat(0) ELSE RAdd(Head(s), RSum(Tail(s)))

\* Array.prototype.filter
FilterSeq(s, Test(_)) == SelectSeq(s, Test)

\* Array.prototype.map
MapSeq(s, F(_)) == [i \in 1..Len(s) |-> F(s[i])]

\* reduce((sum, x) => sum + F(x), 0)
SumSeq(s, F(_)) == Sum(MapSeq(s, F))

RSumSeq(s, F(_)) == RSum(MapSeq(s, F))

Range(s) == {s[i] : i \in 1..Len(s)}

\* ------------------------------------------------------------ helpers.ts

\* toILS passing an amount in an unknown currency through unconverted.
toILS_unknownUnchanged(amount, currency, usdRate, cnyRate) ==
  CASE currency = "USD" -> amount * usdRate
    [] currency = "CNY" -> amount * cnyRate
    [] OTHER            -> amount

\* toILS: amount * usdRate for "USD" and for any unknown code,
\* amount * cnyRate for "CNY", amount for "ILS".
toILS(amount, currency, usdRate, cnyRate) ==
  CASE currency = "USD" -> amount * usdRate
    [] currency = "CNY" -> amount * cnyRate
    [] currency = "ILS" -> amount
    [] OTHER            -> amount * usdRate

\* linkedProductIds taking every link row of the cost, whatever its flag.
linkedProductIdsOf_anyRow(cost, links) ==
  {l.productId : l \in {m \in links : m.costId = cost.costId}}

\* linkedProductIds in calculateProductCosts: the productIds of the link rows
\* of this cost that have isLinked set.  links is the set of distinct rows.
linkedProductIdsOf(cost, links) ==
  {l.productId : l \in {m \in links : m.costId = cost.costId /\ m.isLinked}}

\* linkedProducts without the filter: every product of the order.
linkedProducts_all(products, cost, links) == products

\* linkedProducts: the products the cost applies to.
linkedProducts(products, cost, links) ==
  LET ids == linkedProductIdsOf(cost, links)
  IN  FilterSeq(products, LAMBDA p : ids = {} \/ p.productId \in ids)

\* costShare with the volume and the weight of a product derived from its
\* quantity and per-unit figures.
costShare_derivedTotals(product, cost, products, links, usdRate, cnyRate) ==
  LET costILS  == toILS(cost.amount, cost.currency, usdRate, cnyRate)
      priceILS == toILS(product.priceTotal, product.currency, usdRate, cnyRate)
      ids      == linkedProductIdsOf(cost, links)
      isLinkedToThisProduct == ids = {} \/ product.productId \in ids
      lp       == linkedProducts(products, cost, links)
  IN  IF ~isLinkedToThisProduct THEN Rat(0)
      ELSE IF Len(lp) = 0 THEN Rat(0)
      ELSE CASE cost.allocationMethod = "volume" ->
                  LET totalCBM == SumSeq(lp, LAMBDA p : p.cbmTotal)
                  IN  IF totalCBM > 0
                      THEN Frac(product.quantity * product.cbmPerUnit * costILS, totalCBM)
                      ELSE Rat(0)
             [] cost.allocationMethod = "weight" ->
                  LET totalKG == SumSeq(lp, LAMBDA p : p.kgTotal)
                  IN  IF totalKG > 0
                      THEN Frac(product.quantity * product.kgPerUnit * costILS, totalKG)
                      ELSE Rat(0)
             [] cost.allocationMethod = "cost" ->
                  LET totalCost ==
                        SumSeq(lp, LAMBDA p :
                          toILS(p.priceTotal, p.currency, usdRate, cnyRate))
                  IN  IF totalCost > 0
                      THEN Frac(priceILS * costILS, totalCost)
                      ELSE Rat(0)
             [] cost.allocationMethod = "quantity" ->
                  LET totalQty == SumSeq(lp, LAMBDA p : p.quantity)
                  IN  IF totalQty > 0
                      THEN Frac(product.quantity * costILS, totalQty)
                      ELSE Rat(0)
             [] OTHER -> Frac(costILS, Len(lp))

\* costShare with the price of the product not converted in the numerator.
costShare_unconvertedPrice(product, cost, products, links, usdRate, cnyRate) ==
  LET costILS  == toILS(cost.amount, cost.currency, usdRate, cnyRate)
      priceILS == toILS(product.priceTotal, product.currency, usdRate, cnyRate)
      ids      == linkedProductIdsOf(cost, links)
      isLinkedToThisProduct == ids = {} \/ product.productId \in ids
      lp       == linkedProducts(products, cost, links)
  IN  IF ~isLinkedToThisProduct THEN Rat(0)
      ELSE IF Len(lp) = 0 THEN Rat(0)
      ELSE CASE cost.allocationMethod = "volume" ->
                  LET totalCBM == SumSeq(lp, LAMBDA p : p.cbmTotal)
                  IN  IF totalCBM > 0
                      THEN Frac(product.cbmTotal * costILS, totalCBM)
                      ELSE Rat(0)
             [] cost.allocationMethod = "weight" ->
                  LET totalKG == SumSeq(lp, LAMBDA p : p.kgTotal)
                  IN  IF totalKG > 0
                      THEN Frac(product.kgTotal * costILS, totalKG)
                      ELSE Rat(0)
             [] cost.allocationMethod = "cost" ->
                  LET totalCost ==
                        SumSeq(lp, LAMBDA p :
                          toILS(p.priceTotal, p.currency, usdRate, cnyRate))
                  IN  IF totalCost > 0
                      THEN Frac(product.priceTotal * costILS, totalCost)
                      ELSE Rat(0)
             [] cost.allocationMethod = "quantity" ->
                  LET totalQty == SumSeq(lp, LAMBDA p : p.quantity)
                  IN  IF totalQty > 0
                      THEN Frac(product.quantity * costILS, totalQty)
                      ELSE Rat(0)
             [] OTHER -> Frac(costILS, Len(lp))

\* costShare splitting the cost equally when the sum of the keys is not
\* positive.
costShare_equalFallback(product, cost, products, links, usdRate, cnyRate) ==
  LET costILS  == toILS(cost.amount, cost.currency, usdRate, cnyRate)
      priceILS == toILS(product.priceTotal, product.currency, usdRate, cnyRate)
      ids      == linkedProductIdsOf(cost, links)
      isLinkedToThisProduct == ids = {} \/ product.productId \in ids
      lp       == linkedProducts(products, cost, links)
  IN  IF ~isLinkedToThisProduct THEN Rat(0)
      ELSE IF Len(lp) = 0 THEN Rat(0)
      ELSE CASE cost.allocationMethod = "volume" ->
                  LET totalCBM == SumSeq(lp, LAMBDA p : p.cbmTotal)
                  IN  IF totalCBM > 0
                      THEN Frac(product.cbmTotal * costILS, totalCBM)
                      ELSE Frac(costILS, Len(lp))
             [] cost.allocationMethod = "weight" ->
                  LET totalKG == SumSeq(lp, LAMBDA p : p.kgTotal)
                  IN  IF totalKG > 0
                      THEN Frac(product.kgTotal * costILS, totalKG)
                      ELSE Frac(costILS, Len(lp))
             [] cost.allocationMethod = "cost" ->
                  LET totalCost ==
                        SumSeq(lp, LAMBDA p :
                          toILS(p.priceTotal, p.currency, usdRate, cnyRate))
                  IN  IF totalCost > 0
                      THEN Frac(priceILS * costILS, totalCost)
                      ELSE Frac(costILS, Len(lp))
             [] cost.allocationMethod = "quantity" ->
                  LET totalQty == SumSeq(lp, LAMBDA p : p.quantity)
                  IN  IF totalQty > 0
                      THEN Frac(product.quantity * costILS, totalQty)
                      ELSE Frac(costILS, Len(lp))
             [] OTHER -> Frac(costILS, Len(lp))

\* The share of one cost that calculateProductCosts adds to one product
\* (zero where the loop body is left by `continue`).
costShare(product, cost, products, links, usdRate, cnyRate) ==
  LET costILS  == toILS(cost.amount, cost.currency, usdRate, cnyRate)
      priceILS == toILS(product.priceTotal, product.currency, usdRate, cnyRate)
      ids      == linkedProductIdsOf(cost, links)
      isLinkedToThisProduct == ids = {} \/ product.productId \in ids
      lp       == linkedProducts(products, cost, links)
  IN  IF ~isLinkedToThisProduct THEN Rat(0)
      ELSE IF Len(lp) = 0 THEN Rat(0)
      ELSE CASE cost.allocationMethod = "volume" ->
                  LET totalCBM == SumSeq(lp, LAMBDA p : p.cbmTotal)
                  IN  IF totalCBM > 0
                      THEN Frac(product.cbmTotal * costILS, totalCBM)
                      ELSE Rat(0)
             [] cost.allocationMethod = "weight" ->
                  LET totalKG == SumSeq(lp, LAMBDA p : p.kgTotal)
                  IN  IF totalKG > 0
                      THEN Frac(product.kgTotal * costILS, totalKG)
                      ELSE Rat(0)
             [] cost.allocationMethod = "cost" ->
                  LET totalCost ==
                        SumSeq(lp, LAMBDA p :
                          toILS(p.priceTotal, p.currency, usdRate, cnyRate))
                  IN  IF totalCost > 0
                      THEN Frac(priceILS * costILS, totalCost)
                      ELSE Rat(0)
             [] cost.allocationMethod = "quantity" ->
                  LET totalQty == SumSeq(lp, LAMBDA p : p.quantity)
                  IN  IF totalQty > 0
                      THEN Frac(product.quantity * costILS, totalQty)
                      ELSE Rat(0)
             [] OTHER -> Frac(costILS, Len(lp))

\* calculateProductCosts spreading the allocated total over the number of
\* costs of the order.
calculateProductCosts_normalised(products, costs, links, usdRate, cnyRate) ==
  MapSeq(products, LAMBDA product :
    LET priceILS == toILS(product.priceTotal, product.currency, usdRate, cnyRate)
        summed ==
          RSumSeq(costs, LAMBDA cost :
            costShare(product, cost, products, links, usdRate, cnyRate))
        allocatedCosts ==
          IF Len(costs) = 0 THEN summed
          ELSE Frac(summed.n, summed.d * Len(costs))
        finalCostILS == RAdd(Rat(priceILS), allocatedCosts)
    IN  [product            |-> product,
         priceILS           |-> priceILS,
         additionalCostsILS |-> allocatedCosts,
         finalCostILS       |-> finalCostILS,
         finalCostPerUnitILS |->
           IF product.quantity > 0
           THEN Frac(finalCostILS.n, finalCostILS.d * product.quantity)
           ELSE Rat(0)])

\* calculateProductCosts: every product with priceILS, additionalCostsILS,
\* finalCostILS and finalCostPerUnitILS.
calculateProductCosts(products, costs, links, usdRate, cnyRate) ==
  MapSeq(products, LAMBDA product :
    LET priceILS == toILS(product.priceTotal, product.currency, usdRate, cnyRate)
        allocatedCosts ==
          RSumSeq(costs, LAMBDA cost :
            costShare(product, cost, products, links, usdRate, cnyRate))
        finalCostILS == RAdd(Rat(priceILS), allocatedCosts)
    IN  [product            |-> product,
         priceILS           |-> priceILS,
         additionalCostsILS |-> allocatedCosts,
         finalCostILS       |-> finalCostILS,
         finalCostPerUnitILS |->
           IF product.quantity > 0
           THEN Frac(finalCostILS.n, finalCostILS.d * product.quantity)
           ELSE Rat(0)])

\* calculateOrderSummary without the filter on the payment status.
calculateOrderSummary_countsPending(productsWithCosts, costsWithILS, paymentsWithILS) ==
  LET totalProductsILS == SumSeq(productsWithCosts, LAMBDA p : p.priceILS)
      totalCostsILS    == SumSeq(costsWithILS, LAMBDA c : c.amountILS)
      totalOrderILS    == totalProductsILS + totalCostsILS
      totalPaidILS     == SumSeq(paymentsWithILS, LAMBDA p : p.amountILS)
  IN  [productCount     |-> Len(productsWithCosts),
       totalProductsILS |-> totalProductsILS,
       totalCostsILS    |-> totalCostsILS,
       totalOrderILS    |-> totalOrderILS,
       totalPaidILS     |-> totalPaidILS,
       balanceILS       |-> totalOrderILS - totalPaidILS,
       totalCBM |-> SumSeq(productsWithCosts, LAMBDA p : p.product.cbmTotal),
       totalKG  |-> SumSeq(productsWithCosts, LAMBDA p : p.product.kgTotal)]

\* calculateOrderSummary summing the approved payments' amounts as entered,
\* not converted.
calculateOrderSummary_paidUnconverted(productsWithCosts, costsWithILS, paymentsWithILS) ==
  LET totalProductsILS == SumSeq(productsWithCosts, LAMBDA p : p.priceILS)
      totalCostsILS    == SumSeq(costsWithILS, LAMBDA c : c.amountILS)
      totalOrderILS    == totalProductsILS + totalCostsILS
      approvedPayments ==
        FilterSeq(paymentsWithILS, LAMBDA p : p.payment.status = "approved")
      totalPaidILS     == SumSeq(approvedPayments, LAMBDA p : p.payment.amount)
  IN  [productCount     |-> Len(productsWithCosts),
       totalProductsILS |-> totalProductsILS,
       totalCostsILS    |-> totalCostsILS,
       totalOrderILS    |-> totalOrderILS,
       totalPaidILS     |-> totalPaidILS,
       balanceILS       |-> totalOrderILS - totalPaidILS,
       totalCBM |-> SumSeq(productsWithCosts, LAMBDA p : p.product.cbmTotal),
       totalKG  |-> SumSeq(productsWithCosts, LAMBDA p : p.product.kgTotal)]

\* calculateOrderSummary
calculateOrderSummary(productsWithCosts, costsWithILS, paymentsWithILS) ==
  LET totalProductsILS == SumSeq(productsWithCosts, LAMBDA p : p.priceILS)
      totalCostsILS    == SumSeq(costsWithILS, LAMBDA c : c.amountILS)
      totalOrderILS    == totalProductsILS + totalCostsILS
      approvedPayments ==
        FilterSeq(paymentsWithILS, LAMBDA p : p.payment.status = "approved")
      totalPaidILS     == SumSeq(approvedPayments, LAMBDA p : p.amountILS)
  IN  [productCount     |-> Len(productsWithCosts),
       totalProductsILS |-> totalProductsILS,
       totalCostsILS    |-> totalCostsILS,
       totalOrderILS    |-> totalOrderILS,
       totalPaidILS     |-> totalPaidILS,
       balanceILS       |-> totalOrderILS - totalPaidILS,
       totalCBM |-> SumSeq(productsWithCosts, LAMBDA p : p.product.cbmTotal),
       totalKG  |-> SumSeq(productsWithCosts, LAMBDA p : p.product.kgTotal)]

\* ------------------------------------------------------------- the store

\* A bag of rows restricted to the rows that pass Test.
BagFilter(B, Test(_)) == [r \in {x \in DOMAIN B : Test(x)} |-> B[r]]

\* ctx.db.insert of one link row.
BagInsert(B, r) == B (+) SetToBag({r})

\* ctx.db.insert of one row per element of an argument array (a repeated
\* element is inserted once per occurrence).
BagInsertAll(B, ids, Row(_)) ==
  LET rows == MapSeq(ids, Row)
  IN  B (+) [r \in Range(rows) |->
               Cardinality({i \in 1..Len(rows) : rows[i] = r})]

\* The arrays .collect() can return for a bag of rows: every order of them.
Collected(B) ==
  LET n == BagCardinality(B)
  IN  {s \in [1..n -> DOMAIN B] :
         \A r \in DOMAIN B : Cardinality({i \in 1..n : s[i] = r}) = B[r]}

\* The store right after deployment: every table empty.
EmptyDb ==
  [orders              |-> <<>>,
   products            |-> {},
   additionalCosts     |-> {},
   payments            |-> {},
   costProductLinks    |-> EmptyBag,
   paymentProductLinks |-> EmptyBag,
   paymentCostLinks    |-> EmptyBag,
   milestoneTypes      |-> {},
   orderMilestones     |-> {},
   productMilestones   |-> {},
   suppliers           |-> {},
   ids                 |-> [product |-> 0, cost |-> 0, payment |-> 0,
                            milestoneType |-> 0, orderMilestone |-> 0,
                            productMilestone |-> 0, supplier |-> 0]]

\* .withIndex("by_orderId", ...).first() on orders: the index of the first
\* row with this orderId, 0 when there is none.
firstOrder(S, orderId) ==
  IF \E i \in 1..Len(S.orders) : S.orders[i].orderId = orderId
  THEN CHOOSE i \in 1..Len(S.orders) :
         /\ S.orders[i].orderId = orderId
         /\ \A j \in 1..(i - 1) : S.orders[j].orderId # orderId
  ELSE 0

\* .withIndex("by_orderId", ...).collect() on the three entity tables.
productsOf(S, orderId) ==
  LET rows == {p \in S.products : p.orderId = orderId}
  IN  MapSeq(SortIds({p.productId : p \in rows}),
             LAMBDA i : CHOOSE p \in rows : p.productId = i)

costsOf(S, orderId) ==
  LET rows == {c \in S.additionalCosts : c.orderId = orderId}
  IN  MapSeq(SortIds({c.costId : c \in rows}),
             LAMBDA i : CHOOSE c \in rows : c.costId = i)

paymentsOf(S, orderId) ==
  LET rows == {p \in S.payments : p.orderId = orderId}
  IN  MapSeq(SortIds({p.paymentId : p \in rows}),
             LAMBDA i : CHOOSE p \in rows : p.paymentId = i)

\* ctx.db.patch(row, updates): the fields of updates replace the row's.
patch(row, updates) ==
  [f \in DOMAIN row |-> IF f \in DOMAIN updates THEN updates[f] ELSE row[f]]

\* ------------------------------------------------------------- orders.ts

\* getOrderFull converting at the rates orders are created with, not at
\* those the order row holds.
getOrderFull_creationRates(S, orderId) ==
  LET k == firstOrder(S, orderId)
  IN  IF k = 0 THEN "null"
      ELSE
        LET order    == S.orders[k]
            created  == <<3, 2>>
            products == productsOf(S, orderId)
            costs    == costsOf(S, orderId)
            payments == paymentsOf(S, orderId)
            costIds    == {c.costId : c \in Range(costs)}
            links      == BagFilter(S.costProductLinks,
                                    LAMBDA l : l.costId \in costIds)
            paymentIds == {p.paymentId : p \in Range(payments)}
            costsWithILS ==
              MapSeq(costs, LAMBDA cost :
                [cost      |-> cost,
                 amountILS |-> toILS(cost.amount, cost.currency,
                                     created[1], created[2]),
                 linkedProductCount |->
                   BagCardinality(BagFilter(links,
                     LAMBDA l : l.costId = cost.costId /\ l.isLinked))])
            paymentsWithILS ==
              MapSeq(payments, LAMBDA payment :
                [payment   |-> payment,
                 amountILS |-> toILS(payment.amount, payment.currency,
                                     created[1], created[2])])
            productsWithCosts ==
              calculateProductCosts(products, costs, BagToSet(links),
                                    created[1], created[2])
        IN  [order    |-> order,
             products |-> productsWithCosts,
             costs    |-> costsWithILS,
             payments |-> paymentsWithILS,
             links    |-> links,
             paymentProductLinks |->
               BagFilter(S.paymentProductLinks,
                         LAMBDA l : l.paymentId \in paymentIds),
             paymentCostLinks |->
               BagFilter(S.paymentCostLinks,
                         LAMBDA l : l.paymentId \in paymentIds),
             summary  |-> calculateOrderSummary(productsWithCosts,
                                                costsWithILS, paymentsWithILS)]

\* getOrderFull counting as paid only the payments that are linked to a
\* product or a cost.
getOrderFull_linkedPaid(S, orderId) ==
  LET k == firstOrder(S, orderId)
  IN  IF k = 0 THEN "null"
      ELSE
        LET order    == S.orders[k]
            products == productsOf(S, orderId)
            costs    == costsOf(S, orderId)
            payments == paymentsOf(S, orderId)
            costIds    == {c.costId : c \in Range(costs)}
            links      == BagFilter(S.costProductLinks,
                                    LAMBDA l : l.costId \in costIds)
            paymentIds == {p.paymentId : p \in Range(payments)}
            costsWithILS ==
              MapSeq(costs, LAMBDA cost :
                [cost      |-> cost,
                 amountILS |-> toILS(cost.amount, cost.currency,
                                     order.usdRate, order.cnyRate),
                 linkedProductCount |->
                   BagCardinality(BagFilter(links,
                     LAMBDA l : l.costId = cost.costId /\ l.isLinked))])
            paymentsWithILS ==
              MapSeq(payments, LAMBDA payment :
                [payment   |-> payment,
                 amountILS |-> toILS(payment.amount, payment.currency,
                                     order.usdRate, order.cnyRate)])
            productsWithCosts ==
              calculateProductCosts(products, costs, BagToSet(links),
                                    order.usdRate, order.cnyRate)
        IN  [order    |-> order,
             products |-> productsWithCosts,
             costs    |-> costsWithILS,
             payments |-> paymentsWithILS,
             links    |-> links,
             paymentProductLinks |->
               BagFilter(S.paymentProductLinks,
                         LAMBDA l : l.paymentId \in paymentIds),
             paymentCostLinks |->
               BagFilter(S.paymentCostLinks,
                         LAMBDA l : l.paymentId \in paymentIds),
             summary  |->
               calculateOrderSummary(
                 productsWithCosts, costsWithILS,
                 FilterSeq(paymentsWithILS, LAMBDA p :
                   \E l \in DOMAIN S.paymentProductLinks
                             \cup DOMAIN S.paymentCostLinks :
                     l.paymentId = p.payment.paymentId))]

\* getOrderFull: "null" for an unknown orderId, else the order with its
\* products, costs and payments converted, its links and its summary.
getOrderFull(S, orderId) ==
  LET k == firstOrder(S, orderId)
  IN  IF k = 0 THEN "null"
      ELSE
        LET order    == S.orders[k]
            products == productsOf(S, orderId)
            costs    == costsOf(S, orderId)
            payments == paymentsOf(S, orderId)
            costIds    == {c.costId : c \in Range(costs)}
            links      == BagFilter(S.costProductLinks,
                                    LAMBDA l : l.costId \in costIds)
            paymentIds == {p.paymentId : p \in Range(payments)}
            costsWithILS ==
              MapSeq(costs, LAMBDA cost :
                [cost      |-> cost,
                 amountILS |-> toILS(cost.amount, cost.currency,
                                     order.usdRate, order.cnyRate),
                 linkedProductCount |->
                   BagCardinality(BagFilter(links,
                     LAMBDA l : l.costId = cost.costId /\ l.isLinked))])
            paymentsWithILS ==
              MapSeq(payments, LAMBDA payment :
                [payment   |-> payment,
                 amountILS |-> toILS(payment.amount, payment.currency,
                                     order.usdRate, order.cnyRate)])
            productsWithCosts ==
              calculateProductCosts(products, costs, BagToSet(links),
                                    order.usdRate, order.cnyRate)
        IN  [order    |-> order,
             products |-> productsWithCosts,
             costs    |-> costsWithILS,
             payments |-> paymentsWithILS,
             links    |-> links,
             paymentProductLinks |->
               BagFilter(S.paymentProductLinks,
                         LAMBDA l : l.paymentId \in paymentIds),
             paymentCostLinks |->
               BagFilter(S.paymentCostLinks,
                         LAMBDA l : l.paymentId \in paymentIds),
             summary  |-> calculateOrderSummary(productsWithCosts,
                                                costsWithILS, paymentsWithILS)]

\* getAllOrders: every order row with its totals; no allocation.
getAllOrders(S) ==
  MapSeq(S.orders, LAMBDA order :
    LET products == productsOf(S, order.orderId)
        costs    == costsOf(S, order.orderId)
        payments == paymentsOf(S, order.orderId)
        totalProductsILS ==
          SumSeq(products, LAMBDA p :
            toILS(p.priceTotal, p.currency, order.usdRate, order.cnyRate))
        totalCostsILS ==
          SumSeq(costs, LAMBDA c :
            toILS(c.amount, c.currency, order.usdRate, order.cnyRate))
        approvedPayments ==
          FilterSeq(payments, LAMBDA p : p.status = "approved")
        totalPaidILS ==
          SumSeq(approvedPayments, LAMBDA p :
            toILS(p.amount, p.currency, order.usdRate, order.cnyRate))
        totalOrderILS == totalProductsILS + totalCostsILS
    IN  [order            |-> order,
         productCount     |-> Len(products),
         totalProductsILS |-> totalProductsILS,
         totalCostsILS    |-> totalCostsILS,
         totalOrderILS    |-> totalOrderILS,
         totalPaidILS     |-> totalPaidILS,
         balanceILS       |-> totalOrderILS - totalPaidILS])

\* createOrder: the new orderId is PO-<year>-<row count + 1>; the model
\* keeps the sequence number, the year being fixed.
createOrder(S, usdRate, cnyRate) ==
  LET orderId == Len(S.orders) + 1
  IN  [db  |-> [S EXCEPT !.orders =
                  Append(@, [orderId |-> orderId,
                             usdRate |-> usdRate, cnyRate |-> cnyRate])],
       ret |-> "created",
       id  |-> orderId]

\* updateOrder: patches the fields that were passed.
updateOrder(S, orderId, updates) ==
  LET k == firstOrder(S, orderId)
  IN  IF k = 0 THEN [db |-> S, ret |-> "false", id |-> orderId]
      ELSE [db |-> [S EXCEPT !.orders[k] = patch(@, updates)],
            ret |-> "true",
            id  |-> orderId]

\* deleteOrder: the order's products with their milestones and cost links,
\* its costs with their cost links, its payments with their links, its
\* milestones, then the order row.
deleteOrder(S, orderId) ==
  LET k == firstOrder(S, orderId)
  IN  IF k = 0 THEN [db |-> S, ret |-> "false", id |-> orderId]
      ELSE
        LET productIds == {p.productId : p \in {q \in S.products : q.orderId = orderId}}
            costIds    == {c.costId : c \in {q \in S.additionalCosts : q.orderId = orderId}}
            paymentIds == {p.paymentId : p \in {q \in S.payments : q.orderId = orderId}}
        IN  [db |-> [S EXCEPT
                  !.products = {p \in @ : p.orderId # orderId},
                  !.additionalCosts = {c \in @ : c.orderId # orderId},
                  !.payments = {p \in @ : p.orderId # orderId},
                  !.productMilestones =
                     {m \in @ : m.productId \notin productIds},
                  !.orderMilestones = {m \in @ : m.orderId # orderId},
                  !.costProductLinks =
                     BagFilter(@, LAMBDA l : l.productId \notin productIds
                                             /\ l.costId \notin costIds),
                  !.paymentProductLinks =
                     BagFilter(@, LAMBDA l : l.paymentId \notin paymentIds),
                  !.paymentCostLinks =
                     BagFilter(@, LAMBDA l : l.paymentId \notin paymentIds),
                  !.orders = SubSeq(@, 1, k - 1) \o SubSeq(@, k + 1, Len(@))],
             ret |-> "true",
             id  |-> orderId]

\* ----------------------------------------------------------- products.ts

\* addProduct with the stub created for the unit price.
addProduct_unitPriceStub(S, args) ==
  LET productId == S.ids.product + 1
      paymentId == S.ids.payment + 1
      paymentCurrency ==
        IF args.currency \in {"USD", "CNY", "ILS"} THEN args.currency ELSE "USD"
  IN  [db |-> [S EXCEPT
             !.ids.product = productId,
             !.ids.payment = paymentId,
             !.products = @ \cup
               {[productId    |-> productId,
                 orderId      |-> args.orderId,
                 quantity     |-> args.quantity,
                 pricePerUnit |-> args.pricePerUnit,
                 priceTotal   |-> args.priceTotal,
                 currency     |-> args.currency,
                 cbmPerUnit   |-> args.cbmPerUnit,
                 cbmTotal     |-> args.cbmTotal,
                 kgPerUnit    |-> args.kgPerUnit,
                 kgTotal      |-> args.kgTotal]},
             !.payments = @ \cup
               {[paymentId |-> paymentId,
                 orderId   |-> args.orderId,
                 amount    |-> args.pricePerUnit,
                 currency  |-> paymentCurrency,
                 status    |-> "pending"]},
             !.paymentProductLinks =
               BagInsert(@, [paymentId |-> paymentId, productId |-> productId])],
       ret |-> "created",
       id  |-> productId]

\* addProduct: the product row, a pending payment for priceTotal (in the
\* product's currency when it is USD, CNY or ILS, else in USD), and the
\* link between them.
addProduct(S, args) ==
  LET productId == S.ids.product + 1
      paymentId == S.ids.payment + 1
      paymentCurrency ==
        IF args.currency \in {"USD", "CNY", "ILS"} THEN args.currency ELSE "USD"
  IN  [db |-> [S EXCEPT
             !.ids.product = productId,
             !.ids.payment = paymentId,
             !.products = @ \cup
               {[productId    |-> productId,
                 orderId      |-> args.orderId,
                 quantity     |-> args.quantity,
                 pricePerUnit |-> args.pricePerUnit,
                 priceTotal   |-> args.priceTotal,
                 currency     |-> args.currency,
                 cbmPerUnit   |-> args.cbmPerUnit,
                 cbmTotal     |-> args.cbmTotal,
                 kgPerUnit    |-> args.kgPerUnit,
                 kgTotal      |-> args.kgTotal]},
             !.payments = @ \cup
               {[paymentId |-> paymentId,
                 orderId   |-> args.orderId,
                 amount    |-> args.priceTotal,
                 currency  |-> paymentCurrency,
                 status    |-> "pending"]},
             !.paymentProductLinks =
               BagInsert(@, [paymentId |-> paymentId, productId |-> productId])],
       ret |-> "created",
       id  |-> productId]

\* updateProduct carrying a new priceTotal and currency over to the pending
\* payments linked to the product.
updateProduct_adjustsStub(S, productId, updates) ==
  IF ~\E p \in S.products : p.productId = productId
  THEN [db |-> S, ret |-> "false", id |-> productId]
  ELSE
    LET linked == {l.paymentId : l \in
                     {x \in DOMAIN S.paymentProductLinks :
                        x.productId = productId}}
    IN  [db |-> [S EXCEPT
                  !.products =
                    {IF p.productId = productId THEN patch(p, updates)
                     ELSE p : p \in @},
                  !.payments =
                    {IF p.paymentId \in linked /\ p.status = "pending"
                     THEN [p EXCEPT !.amount = updates.priceTotal,
                                    !.currency = updates.currency]
                     ELSE p : p \in @}],
         ret |-> "true",
         id  |-> productId]

\* updateProduct: patches the product row and nothing else.
updateProduct(S, productId, updates) ==
  IF ~\E p \in S.products : p.productId = productId
  THEN [db |-> S, ret |-> "false", id |-> productId]
  ELSE [db |-> [S EXCEPT !.products =
                  {IF p.productId = productId THEN patch(p, updates) ELSE p :
                     p \in @}],
        ret |-> "true",
        id  |-> productId]

\* deleteProductLoop with the cascade forgetting the pending payment's cost
\* links.
RECURSIVE deleteProductLoop_keepsCostLinks(_, _)
deleteProductLoop_keepsCostLinks(T, paymentLinks) ==
  IF paymentLinks = <<>> \/ T.thrown THEN T
  ELSE
    LET link    == Head(paymentLinks)
        S       == T.db
        payment == {p \in S.payments : p.paymentId = link.paymentId}
    IN  IF payment # {} /\ (\A p \in payment : p.status = "pending")
        THEN deleteProductLoop_keepsCostLinks(
               [T EXCEPT
                  !.db.paymentProductLinks =
                     BagFilter(@, LAMBDA l : l.paymentId # link.paymentId),
                  !.db.payments = @ \ payment],
               Tail(paymentLinks))
        ELSE IF ~BagIn(link, S.paymentProductLinks)
             THEN [T EXCEPT !.thrown = TRUE]
             ELSE deleteProductLoop_keepsCostLinks(
                    [T EXCEPT !.db.paymentProductLinks = @ (-) SetToBag({link})],
                    Tail(paymentLinks))

\* deleteProductLoop deleting, of a pending payment's product links, only
\* those to the product being deleted.
RECURSIVE deleteProductLoop_onlySourceLinks(_, _)
deleteProductLoop_onlySourceLinks(T, paymentLinks) ==
  IF paymentLinks = <<>> \/ T.thrown THEN T
  ELSE
    LET link    == Head(paymentLinks)
        S       == T.db
        payment == {p \in S.payments : p.paymentId = link.paymentId}
    IN  IF payment # {} /\ (\A p \in payment : p.status = "pending")
        THEN deleteProductLoop_onlySourceLinks(
               [T EXCEPT
                  !.db.paymentProductLinks =
                     BagFilter(@, LAMBDA l : l.paymentId # link.paymentId
                                             \/ l.productId # link.productId),
                  !.db.paymentCostLinks =
                     BagFilter(@, LAMBDA l : l.paymentId # link.paymentId),
                  !.db.payments = @ \ payment],
               Tail(paymentLinks))
        ELSE IF ~BagIn(link, S.paymentProductLinks)
             THEN [T EXCEPT !.thrown = TRUE]
             ELSE deleteProductLoop_onlySourceLinks(
                    [T EXCEPT !.db.paymentProductLinks = @ (-) SetToBag({link})],
                    Tail(paymentLinks))

\* deleteProductLoop without the test of the payment's status.
RECURSIVE deleteProductLoop_anyStatus(_, _)
deleteProductLoop_anyStatus(T, paymentLinks) ==
  IF paymentLinks = <<>> \/ T.thrown THEN T
  ELSE
    LET link    == Head(paymentLinks)
        S       == T.db
        payment == {p \in S.payments : p.paymentId = link.paymentId}
    IN  IF payment # {}
        THEN deleteProductLoop_anyStatus(
               [T EXCEPT
                  !.db.paymentProductLinks =
                     BagFilter(@, LAMBDA l : l.paymentId # link.paymentId),
                  !.db.paymentCostLinks =
                     BagFilter(@, LAMBDA l : l.paymentId # link.paymentId),
                  !.db.payments = @ \ payment],
               Tail(paymentLinks))
        ELSE IF ~BagIn(link, S.paymentProductLinks)
             THEN [T EXCEPT !.thrown = TRUE]
             ELSE deleteProductLoop_anyStatus(
                    [T EXCEPT !.db.paymentProductLinks = @ (-) SetToBag({link})],
                    Tail(paymentLinks))

\* The loop of deleteProduct over the payment links of the product, in the
\* order paymentLinks holds them.  T is [db, thrown]: ctx.db.delete of a row
\* that is no longer stored throws.
RECURSIVE deleteProductLoop(_, _)
deleteProductLoop(T, paymentLinks) ==
  IF paymentLinks = <<>> \/ T.thrown THEN T
  ELSE
    LET link    == Head(paymentLinks)
        S       == T.db
        payment == {p \in S.payments : p.paymentId = link.paymentId}
    IN  IF payment # {} /\ (\A p \in payment : p.status = "pending")
        THEN deleteProductLoop(
               [T EXCEPT
                  !.db.paymentProductLinks =
                     BagFilter(@, LAMBDA l : l.paymentId # link.paymentId),
                  !.db.paymentCostLinks =
                     BagFilter(@, LAMBDA l : l.paymentId # link.paymentId),
                  !.db.payments = @ \ payment],
               Tail(paymentLinks))
        ELSE IF ~BagIn(link, S.paymentProductLinks)
             THEN [T EXCEPT !.thrown = TRUE]
             ELSE deleteProductLoop(
                    [T EXCEPT !.db.paymentProductLinks = @ (-) SetToBag({link})],
                    Tail(paymentLinks))

\* deleteProduct leaving the product's costProductLinks rows in place.
deleteProduct_keepsCostProductLinks(S, productId, paymentLinks) ==
  IF ~\E p \in S.products : p.productId = productId
  THEN [db |-> S, ret |-> "false", id |-> productId]
  ELSE
    LET S1 == [S EXCEPT
                 !.productMilestones = {m \in @ : m.productId # productId}]
        T  == deleteProductLoop([db |-> S1, thrown |-> FALSE], paymentLinks)
    IN  IF T.thrown
        THEN [db |-> S, ret |-> "throw", id |-> productId]
        ELSE [db |-> [T.db EXCEPT !.products =
                        {p \in @ : p.productId # productId}],
              ret |-> "true",
              id  |-> productId]

\* deleteProduct: the product's cost links and milestones, then for each of
\* its payment links the pending payment with all its links, or just the
\* link; then the product row.  A throw aborts the mutation and the store keeps its rows.
deleteProduct(S, productId, paymentLinks) ==
  IF ~\E p \in S.products : p.productId = productId
  THEN [db |-> S, ret |-> "false", id |-> productId]
  ELSE
    LET S1 == [S EXCEPT
                 !.costProductLinks =
                    BagFilter(@, LAMBDA l : l.productId # productId),
                 !.productMilestones = {m \in @ : m.productId # productId}]
        T  == deleteProductLoop([db |-> S1, thrown |-> FALSE], paymentLinks)
    IN  IF T.thrown
        THEN [db |-> S, ret |-> "throw", id |-> productId]
        ELSE [db |-> [T.db EXCEPT !.products =
                        {p \in @ : p.productId # productId}],
              ret |-> "true",
              id  |-> productId]

\* -------------------------------------------------------------- costs.ts

\* addCost: the cost row, a pending payment for its amount and currency,
\* and the link between them.
addCost(S, args) ==
  LET costId    == S.ids.cost + 1
      paymentId == S.ids.payment + 1
  IN  [db |-> [S EXCEPT
             !.ids.cost = costId,
             !.ids.payment = paymentId,
             !.additionalCosts = @ \cup
               {[costId           |-> costId,
                 orderId          |-> args.orderId,
                 amount           |-> args.amount,
                 currency         |-> args.currency,
                 allocationMethod |-> args.allocationMethod]},
             !.payments = @ \cup
               {[paymentId |-> paymentId,
                 orderId   |-> args.orderId,
                 amount    |-> args.amount,
                 currency  |-> args.currency,
                 status    |-> "pending"]},
             !.paymentCostLinks =
               BagInsert(@, [paymentId |-> paymentId, costId |-> costId])],
       ret |-> "created",
       id  |-> costId]

\* updateCost: patches the cost row and nothing else.
updateCost(S, costId, updates) ==
  IF ~\E c \in S.additionalCosts : c.costId = costId
  THEN [db |-> S, ret |-> "false", id |-> costId]
  ELSE [db |-> [S EXCEPT !.additionalCosts =
                  {IF c.costId = costId THEN patch(c, updates) ELSE c :
                     c \in @}],
        ret |-> "true",
        id  |-> costId]

\* deleteCostLoop deleting every link row of an approved payment instead of
\* the one row to the cost.
RECURSIVE deleteCostLoop_dropsAllLinks(_, _)
deleteCostLoop_dropsAllLinks(T, paymentLinks) ==
  IF paymentLinks = <<>> \/ T.thrown THEN T
  ELSE
    LET link    == Head(paymentLinks)
        S       == T.db
        payment == {p \in S.payments : p.paymentId = link.paymentId}
    IN  IF payment # {} /\ (\A p \in payment : p.status = "pending")
        THEN deleteCostLoop_dropsAllLinks(
               [T EXCEPT
                  !.db.paymentProductLinks =
                     BagFilter(@, LAMBDA l : l.paymentId # link.paymentId),
                  !.db.paymentCostLinks =
                     BagFilter(@, LAMBDA l : l.paymentId # link.paymentId),
                  !.db.payments = @ \ payment],
               Tail(paymentLinks))
        ELSE deleteCostLoop_dropsAllLinks(
               [T EXCEPT
                  !.db.paymentProductLinks =
                     BagFilter(@, LAMBDA l : l.paymentId # link.paymentId),
                  !.db.paymentCostLinks =
                     BagFilter(@, LAMBDA l : l.paymentId # link.paymentId)],
               Tail(paymentLinks))

\* The loop of deleteCost over the payment links of the cost.
RECURSIVE deleteCostLoop(_, _)
deleteCostLoop(T, paymentLinks) ==
  IF paymentLinks = <<>> \/ T.thrown THEN T
  ELSE
    LET link    == Head(paymentLinks)
        S       == T.db
        payment == {p \in S.payments : p.paymentId = link.paymentId}
    IN  IF payment # {} /\ (\A p \in payment : p.status = "pending")
        THEN deleteCostLoop(
               [T EXCEPT
                  !.db.paymentProductLinks =
                     BagFilter(@, LAMBDA l : l.paymentId # link.paymentId),
                  !.db.paymentCostLinks =
                     BagFilter(@, LAMBDA l : l.paymentId # link.paymentId),
                  !.db.payments = @ \ payment],
               Tail(paymentLinks))
        ELSE IF ~BagIn(link, S.paymentCostLinks)
             THEN [T EXCEPT !.thrown = TRUE]
             ELSE deleteCostLoop(
                    [T EXCEPT !.db.paymentCostLinks = @ (-) SetToBag({link})],
                    Tail(paymentLinks))

\* deleteCost: the cost's product links, then for each of its payment links
\* the pending payment with all its links, or just the link; then the cost.
deleteCost(S, costId, paymentLinks) ==
  IF ~\E c \in S.additionalCosts : c.costId = costId
  THEN [db |-> S, ret |-> "false", id |-> costId]
  ELSE
    LET S1 == [S EXCEPT !.costProductLinks =
                 BagFilter(@, LAMBDA l : l.costId # costId)]
        T  == deleteCostLoop([db |-> S1, thrown |-> FALSE], paymentLinks)
    IN  IF T.thrown
        THEN [db |-> S, ret |-> "throw", id |-> costId]
        ELSE [db |-> [T.db EXCEPT !.additionalCosts =
                        {c \in @ : c.costId # costId}],
              ret |-> "true",
              id  |-> costId]

\* updateCostProductLinks inserting the new rows beside the old ones.
updateCostProductLinks_appends(S, costId, linkedProductIds) ==
  [db |-> [S EXCEPT !.costProductLinks =
             BagInsertAll(@, linkedProductIds,
                          LAMBDA productId :
                            [costId |-> costId, productId |-> productId,
                             isLinked |-> TRUE])],
   ret |-> "true",
   id  |-> costId]

\* updateCostProductLinks: every link row of the cost is deleted and one row
\* with isLinked = true is inserted per element of linkedProductIds.
updateCostProductLinks(S, costId, linkedProductIds) ==
  [db |-> [S EXCEPT !.costProductLinks =
             BagInsertAll(BagFilter(@, LAMBDA l : l.costId # costId),
                          linkedProductIds,
                          LAMBDA productId :
                            [costId |-> costId, productId |-> productId,
                             isLinked |-> TRUE])],
   ret |-> "true",
   id  |-> costId]

\* ----------------------------------------------------------- payments.ts

\* addPayment: the payment row and one link row per listed product and cost.
addPayment(S, args, linkedProductIds, linkedCostIds) ==
  LET paymentId == S.ids.payment + 1
  IN  [db |-> [S EXCEPT
             !.ids.payment = paymentId,
             !.payments = @ \cup
               {[paymentId |-> paymentId,
                 orderId   |-> args.orderId,
                 amount    |-> args.amount,
                 currency  |-> args.currency,
                 status    |-> args.status]},
             !.paymentProductLinks =
               BagInsertAll(@, linkedProductIds, LAMBDA productId :
                 [paymentId |-> paymentId, productId |-> productId]),
             !.paymentCostLinks =
               BagInsertAll(@, linkedCostIds, LAMBDA costId :
                 [paymentId |-> paymentId, costId |-> costId])],
       ret |-> "created",
       id  |-> paymentId]

\* updatePayment: patches the payment row and nothing else.
updatePayment(S, paymentId, updates) ==
  IF ~\E p \in S.payments : p.paymentId = paymentId
  THEN [db |-> S, ret |-> "false", id |-> paymentId]
  ELSE [db |-> [S EXCEPT !.payments =
                  {IF p.paymentId = paymentId THEN patch(p, updates) ELSE p :
                     p \in @}],
        ret |-> "true",
        id  |-> paymentId]

\* updatePaymentLinks: every link row of the payment is deleted and the
\* listed ones are inserted; the payment row itself is not looked up.
updatePaymentLinks(S, paymentId, linkedProductIds, linkedCostIds) ==
  [db |-> [S EXCEPT
         !.paymentProductLinks =
           BagInsertAll(BagFilter(@, LAMBDA l : l.paymentId # paymentId),
                        linkedProductIds, LAMBDA productId :
                          [paymentId |-> paymentId, productId |-> productId]),
         !.paymentCostLinks =
           BagInsertAll(BagFilter(@, LAMBDA l : l.paymentId # paymentId),
                        linkedCostIds, LAMBDA costId :
                          [paymentId |-> paymentId, costId |-> costId])],
   ret |-> "true",
   id  |-> paymentId]

\* approvePayment: sets the status to approved.
approvePayment(S, paymentId) ==
  IF ~\E p \in S.payments : p.paymentId = paymentId
  THEN [db |-> S, ret |-> "false", id |-> paymentId]
  ELSE [db |-> [S EXCEPT !.payments =
                  {IF p.paymentId = paymentId
                   THEN [p EXCEPT !.status = "approved"] ELSE p : p \in @}],
        ret |-> "true",
        id  |-> paymentId]

\* dismissPayment leaving the payment's cost links behind.
dismissPayment_keepsCostLinks(S, paymentId) ==
  IF ~\E p \in S.payments : p.paymentId = paymentId
  THEN [db |-> S, ret |-> "false", id |-> paymentId]
  ELSE [db |-> [S EXCEPT
                  !.paymentProductLinks =
                     BagFilter(@, LAMBDA l : l.paymentId # paymentId),
                  !.payments = {p \in @ : p.paymentId # paymentId}],
        ret |-> "true",
        id  |-> paymentId]

\* dismissPayment: the payment's links and the payment row, whatever its
\* status.
dismissPayment(S, paymentId) ==
  IF ~\E p \in S.payments : p.paymentId = paymentId
  THEN [db |-> S, ret |-> "false", id |-> paymentId]
  ELSE [db |-> [S EXCEPT
                  !.paymentProductLinks =
                     BagFilter(@, LAMBDA l : l.paymentId # paymentId),
                  !.paymentCostLinks =
                     BagFilter(@, LAMBDA l : l.paymentId # paymentId),
                  !.payments = {p \in @ : p.paymentId # paymentId}],
        ret |-> "true",
        id  |-> paymentId]

\* deletePayment removing the link rows of the paymentId before it looks
\* the payment up.
deletePayment_purgesLinks(S, paymentId) ==
  LET purged == [S EXCEPT
                   !.paymentProductLinks =
                      BagFilter(@, LAMBDA l : l.paymentId # paymentId),
                   !.paymentCostLinks =
                      BagFilter(@, LAMBDA l : l.paymentId # paymentId)]
  IN  IF ~\E p \in S.payments : p.paymentId = paymentId
      THEN [db |-> purged, ret |-> "false", id |-> paymentId]
      ELSE [db |-> [purged EXCEPT
                      !.payments = {p \in @ : p.paymentId # paymentId}],
            ret |-> "true",
            id  |-> paymentId]

\* deletePayment: the same steps as dismissPayment.
deletePayment(S, paymentId) ==
  IF ~\E p \in S.payments : p.paymentId = paymentId
  THEN [db |-> S, ret |-> "false", id |-> paymentId]
  ELSE [db |-> [S EXCEPT
                  !.paymentProductLinks =
                     BagFilter(@, LAMBDA l : l.paymentId # paymentId),
                  !.paymentCostLinks =
                     BagFilter(@, LAMBDA l : l.paymentId # paymentId),
                  !.payments = {p \in @ : p.paymentId # paymentId}],
        ret |-> "true",
        id  |-> paymentId]

\* --------------------------------------------------------- milestones.ts

\* addMilestoneType: a row under a generated typeId.
addMilestoneType(S, args) ==
  LET typeId == S.ids.milestoneType + 1
  IN  [db  |-> [S EXCEPT
                  !.milestoneTypes = @ \cup {[typeId |-> typeId] @@ args},
                  !.ids.milestoneType = typeId],
       ret |-> "created",
       id  |-> typeId]

\* seedMilestoneType: a row under the typeId passed, unless one is stored.
seedMilestoneType(S, typeId, args) ==
  IF \E t \in S.milestoneTypes : t.typeId = typeId
  THEN [db |-> S, ret |-> "created", id |-> typeId]
  ELSE [db  |-> [S EXCEPT
                   !.milestoneTypes = @ \cup {[typeId |-> typeId] @@ args}],
        ret |-> "created",
        id  |-> typeId]

\* updateMilestoneType: patches the fields that were passed.
updateMilestoneType(S, typeId, updates) ==
  IF ~\E t \in S.milestoneTypes : t.typeId = typeId
  THEN [db |-> S, ret |-> "false", id |-> typeId]
  ELSE [db |-> [S EXCEPT !.milestoneTypes =
                  {IF t.typeId = typeId THEN patch(t, updates) ELSE t :
                     t \in @}],
        ret |-> "true",
        id  |-> typeId]

\* deleteMilestoneType: the row of the type; milestones naming it stay.
deleteMilestoneType(S, typeId) ==
  IF ~\E t \in S.milestoneTypes : t.typeId = typeId
  THEN [db |-> S, ret |-> "false", id |-> typeId]
  ELSE [db |-> [S EXCEPT !.milestoneTypes =
                  {t \in @ : t.typeId # typeId}],
        ret |-> "true",
        id  |-> typeId]

\* addOrderMilestone: a row for the orderId passed, stored or not.
addOrderMilestone(S, args) ==
  LET milestoneId == S.ids.orderMilestone + 1
  IN  [db  |-> [S EXCEPT
                  !.orderMilestones =
                     @ \cup {[milestoneId |-> milestoneId] @@ args},
                  !.ids.orderMilestone = milestoneId],
       ret |-> "created",
       id  |-> milestoneId]

\* updateOrderMilestone: patches the fields that were passed.
updateOrderMilestone(S, milestoneId, updates) ==
  IF ~\E m \in S.orderMilestones : m.milestoneId = milestoneId
  THEN [db |-> S, ret |-> "false", id |-> milestoneId]
  ELSE [db |-> [S EXCEPT !.orderMilestones =
                  {IF m.milestoneId = milestoneId THEN patch(m, updates)
                   ELSE m : m \in @}],
        ret |-> "true",
        id  |-> milestoneId]

deleteOrderMilestone(S, milestoneId) ==
  IF ~\E m \in S.orderMilestones : m.milestoneId = milestoneId
  THEN [db |-> S, ret |-> "false", id |-> milestoneId]
  ELSE [db |-> [S EXCEPT !.orderMilestones =
                  {m \in @ : m.milestoneId # milestoneId}],
        ret |-> "true",
        id  |-> milestoneId]

\* addProductMilestone: a row for the productId passed, stored or not.
addProductMilestone(S, args) ==
  LET milestoneId == S.ids.productMilestone + 1
  IN  [db  |-> [S EXCEPT
                  !.productMilestones =
                     @ \cup {[milestoneId |-> milestoneId] @@ args},
                  !.ids.productMilestone = milestoneId],
       ret |-> "created",
       id  |-> milestoneId]

updateProductMilestone(S, milestoneId, updates) ==
  IF ~\E m \in S.productMilestones : m.milestoneId = milestoneId
  THEN [db |-> S, ret |-> "false", id |-> milestoneId]
  ELSE [db |-> [S EXCEPT !.productMilestones =
                  {IF m.milestoneId = milestoneId THEN patch(m, updates)
                   ELSE m : m \in @}],
        ret |-> "true",
        id  |-> milestoneId]

deleteProductMilestone(S, milestoneId) ==
  IF ~\E m \in S.productMilestones : m.milestoneId = milestoneId
  THEN [db |-> S, ret |-> "false", id |-> milestoneId]
  ELSE [db |-> [S EXCEPT !.productMilestones =
                  {m \in @ : m.milestoneId # milestoneId}],
        ret |-> "true",
        id  |-> milestoneId]

\* addLegacyMilestone: a product milestone when a productId is passed (0
\* stands for its absence), else an order milestone; the type is "legacy"
\* and the description becomes the status.
addLegacyMilestone(S, orderId, productId, description) ==
  IF productId # 0
  THEN addProductMilestone(S, [productId       |-> productId,
                               milestoneTypeId |-> "legacy",
                               status          |-> description])
  ELSE addOrderMilestone(S, [orderId         |-> orderId,
                             milestoneTypeId |-> "legacy",
                             status          |-> description])

\* ---------------------------------------------------------- suppliers.ts

\* addSupplier: a row under a generated supplierId.
addSupplier(S, args) ==
  LET supplierId == S.ids.supplier + 1
  IN  [db  |-> [S EXCEPT
                  !.suppliers = @ \cup {[supplierId |-> supplierId] @@ args},
                  !.ids.supplier = supplierId],
       ret |-> "created",
       id  |-> supplierId]

\* seedSupplier: a row under the supplierId passed, unless one is stored.
seedSupplier(S, supplierId, args) ==
  IF \E r \in S.suppliers : r.supplierId = supplierId
  THEN [db |-> S, ret |-> "created", id |-> supplierId]
  ELSE [db  |-> [S EXCEPT
                   !.suppliers = @ \cup {[supplierId |-> supplierId] @@ args}],
        ret |-> "created",
        id  |-> supplierId]

updateSupplier(S, supplierId, updates) ==
  IF ~\E r \in S.suppliers : r.supplierId = supplierId
  THEN [db |-> S, ret |-> "false", id |-> supplierId]
  ELSE [db |-> [S EXCEPT !.suppliers =
                  {IF r.supplierId = supplierId THEN patch(r, updates)
                   ELSE r : r \in @}],
        ret |-> "true",
        id  |-> supplierId]

deleteSupplier(S, supplierId) ==
  IF ~\E r \in S.suppliers : r.supplierId = supplierId
  THEN [db |-> S, ret |-> "false", id |-> supplierId]
  ELSE [db |-> [S EXCEPT !.suppliers =
                  {r \in @ : r.supplierId # supplierId}],
        ret |-> "true",
        id  |-> supplierId]

\* --------------------------------------------------- transactions

\* No mutation handler is running.
Idle == [pc |-> "idle"]

\* The three link tables of a store.
LinkTables(S) ==
  [costProductLinks    |-> S.costProductLinks,
   paymentProductLinks |-> S.paymentProductLinks,
   paymentCostLinks    |-> S.paymentCostLinks]

\* What a query reads while the mutation T is running, were the writes of a
\* handler applied to the tables one by one.
visible_dirty(S, T) ==
  IF T.pc = "idle" THEN S
  ELSE [S EXCEPT !.costProductLinks    = T.view.costProductLinks,
                 !.paymentProductLinks = T.view.paymentProductLinks,
                 !.paymentCostLinks    = T.view.paymentCostLinks]

\* What a query reads while the mutation T is running: a handler declared
\* with mutation({...}) runs as one transaction and a handler declared with
\* query({...}) reads the committed tables.
visible(S, T) == S

\* ------------------------------------------------ arguments of the calls

OrderIds == 1..MaxOrders

\* usdRate and cnyRate of createOrder.
RatePairs == {<<3, 2>>}

\* The fields updateOrder is called with.
OrderUpdates == {[usdRate |-> 4, cnyRate |-> 1]}

\* The line item addProduct is called with: its totals differ from
\* quantity * perUnit.
ProductArgs ==
  {[quantity |-> 2, pricePerUnit |-> 1, priceTotal |-> 3, currency |-> "USD",
    cbmPerUnit |-> 1, cbmTotal |-> 1, kgPerUnit |-> 1, kgTotal |-> 2]}

ProductUpdates == {[priceTotal |-> 5, currency |-> "CNY"]}

CostArgs ==
  {[amount |-> 6, currency |-> "USD", allocationMethod |-> "volume"]}

CostUpdates == {[amount |-> 4, currency |-> "ILS", allocationMethod |-> "equal"]}

PaymentArgs ==
  {[amount |-> 2, currency |-> "CNY", status |-> "approved"]}

PaymentUpdates == {[status |-> "approved"], [status |-> "pending"]}

\* The argument arrays over a set of ids, up to the order of their elements
\* (an id may be repeated).
IdArrays(ids, maxLen) ==
  UNION {{s \in [1..n -> ids] : \A i \in 1..(n - 1) : s[i] <= s[i + 1]} :
           n \in 0..maxLen}

\* The ids a call is addressed to: those generateId has handed out so far,
\* of stored and of deleted rows.
ProductIdsSeen == 1..db.ids.product
CostIdsSeen    == 1..db.ids.cost
PaymentIdsSeen == 1..db.ids.payment

\* The ids a link argument array names: those of the stored rows.
ProductIdsStored == {p.productId : p \in db.products}
CostIdsStored    == {c.costId : c \in db.additionalCosts}
PaymentIdsStored == {p.paymentId : p \in db.payments}

\* ---------------------------------------------------------------- actions

\* One completed call: pre keeps the store as it was when the call began,
\* last names the call, the id it was addressed to (or created) and what it
\* returned ("created", "true", "false", "throw"; out is a query's result).
Call(op, r) ==
  /\ pre'  = db
  /\ db'   = r.db
  /\ last' = [op |-> op, id |-> r.id, ret |-> r.ret, out |-> ""]
  /\ UNCHANGED txn

\* One completed call whose argument arrays are kept beside its name.
CallWith(op, r, args) ==
  /\ pre'  = db
  /\ db'   = r.db
  /\ last' = [op |-> op, id |-> r.id, ret |-> r.ret, out |-> "",
              args |-> args]
  /\ UNCHANGED txn

\* createOrder while fewer than maxRows orders are stored.
CreateOrderUpTo(maxRows) ==
  /\ Len(db.orders) < maxRows
  /\ \E rates \in RatePairs :
       Call("createOrder", createOrder(db, rates[1], rates[2]))

CreateOrder == CreateOrderUpTo(MaxOrders)

\* updateOrder addressed to one of orderIds.
UpdateOrderAmong(orderIds) ==
  \E orderId \in orderIds, updates \in OrderUpdates :
    Call("updateOrder", updateOrder(db, orderId, updates))

UpdateOrder == UpdateOrderAmong(OrderIds)

\* deleteOrder addressed to one of orderIds.
DeleteOrderAmong(orderIds) ==
  \E orderId \in orderIds : Call("deleteOrder", deleteOrder(db, orderId))

DeleteOrder == DeleteOrderAmong(OrderIds)

\* addProduct for one of orderIds.
AddProductTo(orderIds) ==
  /\ db.ids.product < MaxProducts
  /\ db.ids.payment < MaxPayments
  /\ \E orderId \in orderIds, a \in ProductArgs :
       Call("addProduct",
            addProduct(db, [orderId |-> orderId] @@ a))

AddProduct == AddProductTo(OrderIds)

UpdateProduct ==
  \E productId \in ProductIdsSeen, updates \in ProductUpdates :
    Call("updateProduct", updateProduct(db, productId, updates))

DeleteProduct ==
  \E productId \in ProductIdsSeen :
    \E paymentLinks \in
         Collected(BagFilter(db.paymentProductLinks,
                             LAMBDA l : l.productId = productId)) :
      Call("deleteProduct", deleteProduct(db, productId, paymentLinks))

\* addCost for one of orderIds.
AddCostTo(orderIds) ==
  /\ db.ids.cost < MaxCosts
  /\ db.ids.payment < MaxPayments
  /\ \E orderId \in orderIds, a \in CostArgs :
       Call("addCost", addCost(db, [orderId |-> orderId] @@ a))

AddCost == AddCostTo(OrderIds)

UpdateCost ==
  \E costId \in CostIdsSeen, updates \in CostUpdates :
    Call("updateCost", updateCost(db, costId, updates))

DeleteCost ==
  \E costId \in CostIdsSeen :
    \E paymentLinks \in
         Collected(BagFilter(db.paymentCostLinks,
                             LAMBDA l : l.costId = costId)) :
      Call("deleteCost", deleteCost(db, costId, paymentLinks))

\* updateCostProductLinks addressed to one of costIds.
UpdateCostProductLinksOf(costIds, maxLen) ==
  \E costId \in costIds,
     linkedProductIds \in IdArrays(ProductIdsStored, maxLen) :
    CallWith("updateCostProductLinks",
             updateCostProductLinks(db, costId, linkedProductIds),
             [linkedProductIds |-> linkedProductIds])

UpdateCostProductLinks(maxLen) ==
  UpdateCostProductLinksOf(CostIdsSeen, maxLen)

\* addPayment for one of orderIds.
AddPaymentTo(orderIds, maxLen) ==
  /\ db.ids.payment < MaxPayments
  /\ \E orderId \in orderIds, a \in PaymentArgs,
        linkedProductIds \in IdArrays(ProductIdsStored, maxLen),
        linkedCostIds \in IdArrays(CostIdsStored, maxLen) :
       Call("addPayment",
            addPayment(db, [orderId |-> orderId] @@ a,
                       linkedProductIds, linkedCostIds))

AddPayment(maxLen) == AddPaymentTo(OrderIds, maxLen)

UpdatePayment ==
  \E paymentId \in PaymentIdsSeen, updates \in PaymentUpdates :
    Call("updatePayment", updatePayment(db, paymentId, updates))

\* updatePaymentLinks addressed to one of paymentIds.
UpdatePaymentLinksOf(paymentIds, maxLen) ==
  \E paymentId \in paymentIds,
     linkedProductIds \in IdArrays(ProductIdsStored, maxLen),
     linkedCostIds \in IdArrays(CostIdsStored, maxLen) :
    CallWith("updatePaymentLinks",
             updatePaymentLinks(db, paymentId, linkedProductIds,
                                linkedCostIds),
             [linkedProductIds |-> linkedProductIds,
              linkedCostIds |-> linkedCostIds])

UpdatePaymentLinks(maxLen) ==
  UpdatePaymentLinksOf(PaymentIdsSeen, maxLen)

ApprovePayment ==
  \E paymentId \in PaymentIdsSeen :
    Call("approvePayment", approvePayment(db, paymentId))

DismissPayment ==
  \E paymentId \in PaymentIdsSeen :
    Call("dismissPayment", dismissPayment(db, paymentId))

DeletePayment ==
  \E paymentId \in PaymentIdsSeen :
    Call("deletePayment", deletePayment(db, paymentId))

\* ------------------------------ milestone and supplier calls

\* The ids seedMilestoneType and seedSupplier are called with: none that
\* generateId hands out.
SeedTypeIds     == {0}
SeedSupplierIds == {0}

MilestoneTypeArgs    == {[name |-> "shipped", level |-> "order"]}
MilestoneTypeUpdates == {[name |-> "arrived"]}
MilestoneArgs        == {[milestoneTypeId |-> "shipped", status |-> "planned"]}
MilestoneUpdates     == {[status |-> "done"]}
SupplierArgs         == {[name |-> "acme"]}
SupplierUpdates      == {[name |-> "apex"]}

\* The productIds a milestone call may name: of stored, deleted and never
\* stored products (the handlers do not look the product up).
MilestoneProductIds == 1..MaxProducts

TypeIdsSeen             == SeedTypeIds \cup 1..db.ids.milestoneType
OrderMilestoneIdsSeen   == 1..db.ids.orderMilestone
ProductMilestoneIdsSeen == 1..db.ids.productMilestone
SupplierIdsSeen         == SeedSupplierIds \cup 1..db.ids.supplier

\* The milestone, milestone type and supplier rows inserted so far: those
\* under generated ids, stored or deleted, and the seeded ones stored.
SideRows ==
  db.ids.milestoneType + db.ids.orderMilestone + db.ids.productMilestone
    + db.ids.supplier
    + Cardinality({t \in db.milestoneTypes : t.typeId \in SeedTypeIds})
    + Cardinality({r \in db.suppliers : r.supplierId \in SeedSupplierIds})

AddMilestoneType ==
  /\ SideRows < MaxSideRows
  /\ \E a \in MilestoneTypeArgs :
       Call("addMilestoneType", addMilestoneType(db, a))

SeedMilestoneType ==
  \E typeId \in SeedTypeIds, a \in MilestoneTypeArgs :
    /\ \/ SideRows < MaxSideRows
       \/ \E t \in db.milestoneTypes : t.typeId = typeId
    /\ Call("seedMilestoneType", seedMilestoneType(db, typeId, a))

UpdateMilestoneType ==
  \E typeId \in TypeIdsSeen, updates \in MilestoneTypeUpdates :
    Call("updateMilestoneType", updateMilestoneType(db, typeId, updates))

DeleteMilestoneType ==
  \E typeId \in TypeIdsSeen :
    Call("deleteMilestoneType", deleteMilestoneType(db, typeId))

\* addOrderMilestone for one of orderIds.
AddOrderMilestoneFor(orderIds) ==
  /\ SideRows < MaxSideRows
  /\ \E orderId \in orderIds, a \in MilestoneArgs :
       Call("addOrderMilestone",
            addOrderMilestone(db, [orderId |-> orderId] @@ a))

AddOrderMilestone == AddOrderMilestoneFor(OrderIds)

UpdateOrderMilestone ==
  \E milestoneId \in OrderMilestoneIdsSeen, updates \in MilestoneUpdates :
    Call("updateOrderMilestone",
         updateOrderMilestone(db, milestoneId, updates))

DeleteOrderMilestone ==
  \E milestoneId \in OrderMilestoneIdsSeen :
    Call("deleteOrderMilestone", deleteOrderMilestone(db, milestoneId))

AddProductMilestone ==
  /\ SideRows < MaxSideRows
  /\ \E productId \in MilestoneProductIds, a \in MilestoneArgs :
       Call("addProductMilestone",
            addProductMilestone(db, [productId |-> productId] @@ a))

UpdateProductMilestone ==
  \E milestoneId \in ProductMilestoneIdsSeen, updates \in MilestoneUpdates :
    Call("updateProductMilestone",
         updateProductMilestone(db, milestoneId, updates))

DeleteProductMilestone ==
  \E milestoneId \in ProductMilestoneIdsSeen :
    Call("deleteProductMilestone", deleteProductMilestone(db, milestoneId))

AddLegacyMilestone ==
  /\ SideRows < MaxSideRows
  /\ \E orderId \in OrderIds, productId \in {0} \cup MilestoneProductIds :
       Call("addLegacyMilestone",
            addLegacyMilestone(db, orderId, productId, "legacy note"))

AddSupplier ==
  /\ SideRows < MaxSideRows
  /\ \E a \in SupplierArgs : Call("addSupplier", addSupplier(db, a))

SeedSupplier ==
  \E supplierId \in SeedSupplierIds, a \in SupplierArgs :
    /\ \/ SideRows < MaxSideRows
       \/ \E r \in db.suppliers : r.supplierId = supplierId
    /\ Call("seedSupplier", seedSupplier(db, supplierId, a))

UpdateSupplier ==
  \E supplierId \in SupplierIdsSeen, updates \in SupplierUpdates :
    Call("updateSupplier", updateSupplier(db, supplierId, updates))

DeleteSupplier ==
  \E supplierId \in SupplierIdsSeen :
    Call("deleteSupplier", deleteSupplier(db, supplierId))

\* getOrderFull keeping the order total it computed in the order row.
GetOrderFull_caching ==
  \E orderId \in OrderIds :
    LET k      == firstOrder(db, orderId)
        result == getOrderFull(visible(db, txn), orderId)
    IN  /\ pre'  = db
        /\ db'   = IF k = 0 THEN db
                   ELSE [db EXCEPT !.orders[k] =
                           [totalOrderILS |-> result.summary.totalOrderILS]
                             @@ @]
        /\ last' = [op |-> "getOrderFull", id |-> orderId, ret |-> "",
                    out |-> result]
        /\ UNCHANGED txn

\* The query getOrderFull: the store is only read, as committed.
GetOrderFull ==
  \E orderId \in OrderIds :
    /\ pre'  = db
    /\ db'   = db
    /\ last' = [op |-> "getOrderFull", id |-> orderId, ret |-> "",
                out |-> getOrderFull(visible(db, txn), orderId)]
    /\ UNCHANGED txn

\* The query getAllOrders.
GetAllOrders ==
  /\ pre'  = db
  /\ db'   = db
  /\ last' = [op |-> "getAllOrders", id |-> 0, ret |-> "",
              out |-> getAllOrders(visible(db, txn))]
  /\ UNCHANGED txn

Init ==
  /\ db   = EmptyDb
  /\ pre  = EmptyDb
  /\ last = [op |-> "init", id |-> 0, ret |-> "", out |-> ""]
  /\ txn  = Idle

Next ==
  \/ CreateOrder
  \/ UpdateOrder
  \/ DeleteOrder
  \/ AddProduct
  \/ UpdateProduct
  \/ DeleteProduct
  \/ AddCost
  \/ UpdateCost
  \/ DeleteCost
  \/ UpdateCostProductLinks(MaxLinkArgs)
  \/ AddPayment(MaxLinkArgs)
  \/ UpdatePayment
  \/ UpdatePaymentLinks(MaxLinkArgs)
  \/ ApprovePayment
  \/ DismissPayment
  \/ DeletePayment

Spec == Init /\ [][Next]_vars

\* The cascading deletes over payments that share products and costs or hold
\* the same link twice: no updates of the line items.
NextCascade ==
  \/ AddProduct
  \/ DeleteProduct
  \/ AddCost
  \/ DeleteCost
  \/ AddPayment(MaxCascadeLinkArgs)
  \/ UpdatePaymentLinks(MaxCascadeLinkArgs)
  \/ ApprovePayment

SpecCascade == Init /\ [][NextCascade]_vars

\* ------------------------------------------------- the allocation inputs

\* allocationMethod of the schema: equal, by volume, by weight, by cost,
\* by quantity.
AllocationMethods == {"equal", "volume", "weight", "cost", "quantity"}

\* Line items as addProduct stores them: the totals are entered, not derived
\* from quantity and the per-unit figures; one item has every key zero.
ProductProfiles ==
  {[quantity |-> 2, pricePerUnit |-> 1, priceTotal |-> 3, currency |-> "USD",
    cbmPerUnit |-> 1, cbmTotal |-> 1, kgPerUnit |-> 2, kgTotal |-> 3],
   [quantity |-> 1, pricePerUnit |-> 4, priceTotal |-> 4, currency |-> "CNY",
    cbmPerUnit |-> 1, cbmTotal |-> 2, kgPerUnit |-> 1, kgTotal |-> 1],
   [quantity |-> 0, pricePerUnit |-> 0, priceTotal |-> 0, currency |-> "ILS",
    cbmPerUnit |-> 0, cbmTotal |-> 0, kgPerUnit |-> 0, kgTotal |-> 0]}

\* Costs as addCost stores them, one per allocation method.
CostProfiles ==
  {[amount |-> 6, currency |-> "USD", allocationMethod |-> m] :
     m \in AllocationMethods}

\* Rows of costProductLinks: of either value of isLinked the schema admits,
\* to products of the order and to a productId the order does not hold.
CostProductLinkRows ==
  [costId : 1..AllocMaxCosts, productId : 1..(AllocMaxProducts + 1),
   isLinked : BOOLEAN]

CostProductLinkSets ==
  {L \in SUBSET CostProductLinkRows : Cardinality(L) <= AllocMaxLinks}

\* The store holding one order with these products, costs and link rows.
AllocDb(products, costs, links) ==
  [EmptyDb EXCEPT
     !.orders = <<[orderId |-> 1, usdRate |-> 3, cnyRate |-> 2]>>,
     !.products =
       {[productId |-> i, orderId |-> 1] @@ products[i] :
          i \in 1..Len(products)},
     !.additionalCosts =
       {[costId |-> i, orderId |-> 1] @@ costs[i] : i \in 1..Len(costs)},
     !.costProductLinks = SetToBag(links),
     !.ids.product = Len(products),
     !.ids.cost    = Len(costs),
     !.ids.payment = Len(products) + Len(costs)]

InitAlloc ==
  /\ \E n \in 0..AllocMaxProducts, m \in 1..AllocMaxCosts :
       \E products \in [1..n -> ProductProfiles],
          costs \in [1..m -> CostProfiles],
          links \in CostProductLinkSets :
         db = AllocDb(products, costs, links)
  /\ pre  = db
  /\ last = [op |-> "init", id |-> 0, ret |-> "", out |-> ""]
  /\ txn  = Idle

NextAlloc == GetOrderFull

SpecAlloc == InitAlloc /\ [][NextAlloc]_vars

\* ------------------------------------------------- the conversion inputs

Amounts == (0 - MaxAmount)..MaxAmount

Rates == 0..MaxRate

\* Currency codes: the three toILS names, a code it does not name and the
\* empty string.
CurrencyCodes == {"USD", "CNY", "ILS", "EUR", ""}

\* A call of toILS: the store is not involved.
ToILS ==
  \E amount \in Amounts, currency \in CurrencyCodes,
     usdRate \in Rates, cnyRate \in Rates :
    /\ UNCHANGED <<db, pre, txn>>
    /\ last' = [op |-> "toILS", id |-> 0, ret |-> "",
                out |-> toILS(amount, currency, usdRate, cnyRate),
                args |-> [amount |-> amount, currency |-> currency,
                          usdRate |-> usdRate, cnyRate |-> cnyRate]]

NextToILS == ToILS

SpecToILS == Init /\ [][NextToILS]_vars

\* ------------------------------------------------- replacing link sets

\* The store after createOrder, addProduct, addCost and addCost: one
\* product, two costs and the three pending payments made for them.
LinksDb ==
  LET productArgs == CHOOSE a \in ProductArgs : TRUE
      costArgs    == CHOOSE a \in CostArgs : TRUE
      rates       == CHOOSE r \in RatePairs : TRUE
      S1 == createOrder(EmptyDb, rates[1], rates[2]).db
      S2 == addProduct(S1, [orderId |-> 1] @@ productArgs).db
      S3 == addCost(S2, [orderId |-> 1] @@ costArgs).db
  IN  addCost(S3, [orderId |-> 1] @@ costArgs).db

InitLinks ==
  /\ db   = LinksDb
  /\ pre  = LinksDb
  /\ last = [op |-> "init", id |-> 0, ret |-> "", out |-> ""]
  /\ txn  = Idle

NextLinks ==
  \/ UpdateCostProductLinks(MaxCascadeLinkArgs)
  \/ UpdatePaymentLinks(MaxLinkArgs)

SpecLinks == InitLinks /\ [][NextLinks]_vars

\* ------------------------------------- a mutation handler step by step

\* The handler of updateCostProductLinks has started: it has collected the
\* link rows of the cost, which it will delete one by one, and will then
\* insert one row per element of linkedProductIds.
BeginUpdateCostProductLinks ==
  /\ txn.pc = "idle"
  /\ \E costId \in CostIdsSeen,
        linkedProductIds \in IdArrays(ProductIdsStored, MaxCascadeLinkArgs) :
       \E existingLinks \in
            Collected(BagFilter(db.costProductLinks,
                                LAMBDA l : l.costId = costId)) :
         txn' = [pc      |-> "running",
                 op      |-> "updateCostProductLinks",
                 id      |-> costId,
                 args    |-> [linkedProductIds |-> linkedProductIds],
                 view    |-> LinkTables(db),
                 deletes |-> existingLinks,
                 inserts |-> [i \in 1..Len(linkedProductIds) |->
                                [costId    |-> costId,
                                 productId |-> linkedProductIds[i],
                                 isLinked  |-> TRUE]]]
  /\ UNCHANGED <<db, pre, last>>

\* await ctx.db.delete(link._id) for the next collected row.
TxnDelete ==
  /\ txn.pc = "running"
  /\ txn.deletes # <<>>
  /\ txn' = [txn EXCEPT
               !.view.costProductLinks = @ (-) SetToBag({Head(txn.deletes)}),
               !.deletes = Tail(@)]
  /\ UNCHANGED <<db, pre, last>>

\* await ctx.db.insert("costProductLinks", ...) for the next productId.
TxnInsert ==
  /\ txn.pc = "running"
  /\ txn.deletes = <<>>
  /\ txn.inserts # <<>>
  /\ txn' = [txn EXCEPT
               !.view.costProductLinks = BagInsert(@, Head(txn.inserts)),
               !.inserts = Tail(@)]
  /\ UNCHANGED <<db, pre, last>>

\* return true: the transaction commits and its writes reach the tables.
TxnCommit ==
  /\ txn.pc = "running"
  /\ txn.deletes = <<>>
  /\ txn.inserts = <<>>
  /\ pre'  = db
  /\ db'   = [db EXCEPT !.costProductLinks = txn.view.costProductLinks]
  /\ last' = [op |-> txn.op, id |-> txn.id, ret |-> "true", out |-> "",
              args |-> txn.args]
  /\ txn'  = Idle

\* The store after createOrder, addProduct, addProduct, addCost and
\* updateCostProductLinks(1, <<1>>): the cost is linked to the first of two
\* products.
TxnDb ==
  LET productArgs == CHOOSE a \in ProductArgs : TRUE
      costArgs    == CHOOSE a \in CostArgs : TRUE
      rates       == CHOOSE r \in RatePairs : TRUE
      S1 == createOrder(EmptyDb, rates[1], rates[2]).db
      S2 == addProduct(S1, [orderId |-> 1] @@ productArgs).db
      S3 == addProduct(S2, [orderId |-> 1] @@ productArgs).db
      S4 == addCost(S3, [orderId |-> 1] @@ costArgs).db
  IN  updateCostProductLinks(S4, 1, <<1>>).db

InitTxn ==
  /\ db   = TxnDb
  /\ pre  = TxnDb
  /\ last = [op |-> "init", id |-> 0, ret |-> "", out |-> ""]
  /\ txn  = Idle

NextTxn ==
  \/ BeginUpdateCostProductLinks
  \/ TxnDelete
  \/ TxnInsert
  \/ TxnCommit
  \/ GetOrderFull

SpecTxn == InitTxn /\ [][NextTxn]_vars

\* The mutations with the two queries between them.
NextRead ==
  \/ Next
  \/ GetOrderFull
  \/ GetAllOrders

SpecRead == Init /\ [][NextRead]_vars

\* Orders created, edited and deleted, one call at a time, in one calendar
\* year.
NextOrders ==
  \/ CreateOrderUpTo(MaxOrderRows)
  \/ DeleteOrderAmong(1..MaxOrderRows)
  \/ UpdateOrder

SpecOrders == Init /\ [][NextOrders]_vars

\* The calls that are neither a creation nor a deletion of a line item or a
\* payment, over an order with products and a cost: the updates of the
\* order, its line items and its cost links, and every milestone and
\* supplier mutation.
NextFrame ==
  \/ CreateOrder
  \/ AddProduct
  \/ AddCost
  \/ UpdateOrder
  \/ UpdateProduct
  \/ UpdateCost
  \/ UpdateCostProductLinks(MaxLinkArgs)
  \/ AddMilestoneType
  \/ SeedMilestoneType
  \/ UpdateMilestoneType
  \/ DeleteMilestoneType
  \/ AddOrderMilestone
  \/ UpdateOrderMilestone
  \/ DeleteOrderMilestone
  \/ AddProductMilestone
  \/ UpdateProductMilestone
  \/ DeleteProductMilestone
  \/ AddLegacyMilestone
  \/ AddSupplier
  \/ SeedSupplier
  \/ UpdateSupplier
  \/ DeleteSupplier

SpecFrame == Init /\ [][NextFrame]_vars

\* Two orders side by side: every link argument and every cost or payment
\* whose links are replaced is a stored row.
LinkedOrderIds == 1..MaxLinkedOrders

NextIntegrity ==
  \/ CreateOrderUpTo(MaxLinkedOrders)
  \/ DeleteOrderAmong(LinkedOrderIds)
  \/ AddProductTo(LinkedOrderIds)
  \/ AddCostTo(LinkedOrderIds)
  \/ AddPaymentTo(LinkedOrderIds, MaxLinkArgs)
  \/ UpdatePaymentLinksOf(PaymentIdsStored, MaxLinkArgs)
  \/ UpdateCostProductLinksOf(CostIdsStored, MaxLinkArgs)
  \/ DeleteProduct
  \/ DeleteCost
  \/ DeletePayment

SpecIntegrity == Init /\ [][NextIntegrity]_vars

\* deleteOrder over two orders with line items, payments and milestones.
NextDeleteOrder ==
  \/ CreateOrderUpTo(MaxLinkedOrders)
  \/ DeleteOrderAmong(LinkedOrderIds)
  \/ AddProductTo(LinkedOrderIds)
  \/ AddCostTo(LinkedOrderIds)
  \/ AddPaymentTo(LinkedOrderIds, MaxLinkArgs)
  \/ AddOrderMilestoneFor(LinkedOrderIds)
  \/ AddProductMilestone

SpecDeleteOrder == Init /\ [][NextDeleteOrder]_vars

\* The calls that change what the order list and the order detail report,
\* over two orders.
NextTotals ==
  \/ CreateOrderUpTo(MaxLinkedOrders)
  \/ UpdateOrderAmong(LinkedOrderIds)
  \/ DeleteOrderAmong(LinkedOrderIds)
  \/ AddProductTo(LinkedOrderIds)
  \/ UpdateProduct
  \/ DeleteProduct
  \/ AddCostTo(LinkedOrderIds)
  \/ UpdateCost
  \/ DeleteCost
  \/ AddPaymentTo(LinkedOrderIds, MaxLinkArgs)
  \/ UpdatePayment
  \/ DeletePayment

SpecTotals == Init /\ [][NextTotals]_vars

\* One order with three products of these profiles and a cost of this
\* profile, each with its stub, as addProduct and addCost leave them.
RECURSIVE addProducts(_, _)
addProducts(S, profiles) ==
  IF profiles = <<>> THEN S
  ELSE addProducts(addProduct(S, [orderId |-> 1] @@ Head(profiles)).db,
                   Tail(profiles))

WidenDb(profiles, cost) ==
  addCost(addProducts(createOrder(EmptyDb, 3, 2).db, profiles),
          [orderId |-> 1] @@ cost).db

InitWiden ==
  /\ \E profiles \in [1..AllocMaxProducts -> ProductProfiles],
        cost \in CostProfiles :
       /\ db  = WidenDb(profiles, cost)
       /\ pre = WidenDb(profiles, cost)
  /\ last = [op |-> "init", id |-> 0, ret |-> "", out |-> ""]
  /\ txn  = Idle

\* The linked set of the cost is chosen, then products are deleted.
NextWiden ==
  \/ UpdateCostProductLinksOf(CostIdsStored, MaxLinkArgs)
  \/ DeleteProduct

SpecWiden == InitWiden /\ [][NextWiden]_vars

\* ------------------------- the cascading deletes, one row deletion a step

\* One await ctx.db.delete(row._id).
Del(table, row) == [table |-> table, row |-> row]

\* The array a .collect() returns for a bag of rows, or for a set of rows.
InOrder(B) == CHOOSE s \in Collected(B) : TRUE

SetInOrder(R) == InOrder(SetToBag(R))

\* Whether the row a deletion names is stored.
stored(S, d) ==
  CASE d.table \in {"costProductLinks", "paymentProductLinks",
                    "paymentCostLinks"} -> BagIn(d.row, S[d.table])
    [] d.table = "orders" -> \E i \in 1..Len(S.orders) : S.orders[i] = d.row
    [] OTHER -> d.row \in S[d.table]

\* The store after one ctx.db.delete of a stored row.
applyDelete(S, d) ==
  CASE d.table \in {"costProductLinks", "paymentProductLinks",
                    "paymentCostLinks"} ->
         [S EXCEPT ![d.table] = @ (-) SetToBag({d.row})]
    [] d.table = "orders" ->
         LET k == CHOOSE i \in 1..Len(S.orders) : S.orders[i] = d.row
         IN  [S EXCEPT !.orders = SubSeq(@, 1, k - 1) \o SubSeq(@, k + 1, Len(@))]
    [] OTHER -> [S EXCEPT ![d.table] = @ \ {d.row}]

RECURSIVE applyDeletes(_, _)
applyDeletes(S, steps) ==
  IF steps = <<>> THEN S
  ELSE applyDeletes(applyDelete(S, Head(steps)), Tail(steps))

\* deletePayment and dismissPayment after the lookup: the payment's product
\* links, its cost links, the payment row.
deletePaymentSteps(S, paymentId) ==
  MapSeq(InOrder(BagFilter(S.paymentProductLinks,
                           LAMBDA l : l.paymentId = paymentId)),
         LAMBDA l : Del("paymentProductLinks", l))
  \o MapSeq(InOrder(BagFilter(S.paymentCostLinks,
                              LAMBDA l : l.paymentId = paymentId)),
            LAMBDA l : Del("paymentCostLinks", l))
  \o MapSeq(SetInOrder({p \in S.payments : p.paymentId = paymentId}),
            LAMBDA p : Del("payments", p))

\* The loop of deleteProduct and deleteCost over the collected payment
\* links of the source: for a pending payment all its links and the
\* payment, else the one link.
RECURSIVE deleteSourceLoopSteps(_, _, _)
deleteSourceLoopSteps(S, table, paymentLinks) ==
  IF paymentLinks = <<>> THEN <<>>
  ELSE
    LET link    == Head(paymentLinks)
        payment == {p \in S.payments : p.paymentId = link.paymentId}
        steps   == IF payment # {} /\ (\A p \in payment : p.status = "pending")
                   THEN deletePaymentSteps(S, link.paymentId)
                   ELSE <<Del(table, link)>>
    IN  IF \E i \in 1..Len(steps) : ~stored(S, steps[i])
        THEN steps
        ELSE steps \o deleteSourceLoopSteps(applyDeletes(S, steps), table,
                                            Tail(paymentLinks))

\* deleteProduct with the product row deleted before the rows that name it.
deleteProductSteps_rowFirst(S, productId) ==
  MapSeq(SetInOrder({p \in S.products : p.productId = productId}),
         LAMBDA p : Del("products", p))
  \o MapSeq(InOrder(BagFilter(S.costProductLinks,
                              LAMBDA l : l.productId = productId)),
            LAMBDA l : Del("costProductLinks", l))
  \o MapSeq(SetInOrder({m \in S.productMilestones : m.productId = productId}),
            LAMBDA m : Del("productMilestones", m))
  \o deleteSourceLoopSteps(
       S, "paymentProductLinks",
       InOrder(BagFilter(S.paymentProductLinks,
                         LAMBDA l : l.productId = productId)))

\* deleteProduct after the lookup: the product's cost links, its
\* milestones, the loop over its payment links, the product row.
deleteProductSteps(S, productId) ==
  MapSeq(InOrder(BagFilter(S.costProductLinks,
                           LAMBDA l : l.productId = productId)),
         LAMBDA l : Del("costProductLinks", l))
  \o MapSeq(SetInOrder({m \in S.productMilestones : m.productId = productId}),
            LAMBDA m : Del("productMilestones", m))
  \o deleteSourceLoopSteps(
       S, "paymentProductLinks",
       InOrder(BagFilter(S.paymentProductLinks,
                         LAMBDA l : l.productId = productId)))
  \o MapSeq(SetInOrder({p \in S.products : p.productId = productId}),
            LAMBDA p : Del("products", p))

\* deleteCost after the lookup: the cost's product links, the loop over its
\* payment links, the cost row.
deleteCostSteps(S, costId) ==
  MapSeq(InOrder(BagFilter(S.costProductLinks, LAMBDA l : l.costId = costId)),
         LAMBDA l : Del("costProductLinks", l))
  \o deleteSourceLoopSteps(
       S, "paymentCostLinks",
       InOrder(BagFilter(S.paymentCostLinks, LAMBDA l : l.costId = costId)))
  \o MapSeq(SetInOrder({c \in S.additionalCosts : c.costId = costId}),
            LAMBDA c : Del("additionalCosts", c))

\* The concatenation of a sequence of step sequences.
RECURSIVE Flatten(_)
Flatten(ss) == IF ss = <<>> THEN <<>> ELSE Head(ss) \o Flatten(Tail(ss))

\* deleteOrder after the lookup: per product its milestones, its cost links
\* and its row; per cost the cost links still stored and its row; per
\* payment its links and its row; the order's milestones; the order row.
deleteOrderSteps(S, orderId) ==
  LET productSteps ==
        Flatten(MapSeq(productsOf(S, orderId), LAMBDA product :
          MapSeq(SetInOrder({m \in S.productMilestones :
                               m.productId = product.productId}),
                 LAMBDA m : Del("productMilestones", m))
          \o MapSeq(InOrder(BagFilter(S.costProductLinks,
                       LAMBDA l : l.productId = product.productId)),
                    LAMBDA l : Del("costProductLinks", l))
          \o <<Del("products", product)>>))
      S1 == applyDeletes(S, productSteps)
      costSteps ==
        Flatten(MapSeq(costsOf(S1, orderId), LAMBDA cost :
          MapSeq(InOrder(BagFilter(S1.costProductLinks,
                    LAMBDA l : l.costId = cost.costId)),
                 LAMBDA l : Del("costProductLinks", l))
          \o <<Del("additionalCosts", cost)>>))
      paymentSteps ==
        Flatten(MapSeq(paymentsOf(S, orderId), LAMBDA payment :
          deletePaymentSteps(S, payment.paymentId)))
      milestoneSteps ==
        MapSeq(SetInOrder({m \in S.orderMilestones : m.orderId = orderId}),
               LAMBDA m : Del("orderMilestones", m))
  IN  productSteps \o costSteps \o paymentSteps \o milestoneSteps
        \o <<Del("orders", S.orders[firstOrder(S, orderId)])>>

\* A handler has looked its row up and starts deleting: the store is written
\* one deletion at a time, each visible as soon as it is done.
BeginCascade(op, id, steps) ==
  /\ txn.pc = "idle"
  /\ txn' = [pc |-> "running", op |-> op, id |-> id, steps |-> steps]
  /\ pre' = db
  /\ UNCHANGED <<db, last>>

BeginDeleteProduct ==
  \E p \in db.products :
    BeginCascade("deleteProduct", p.productId,
                 deleteProductSteps(db, p.productId))

BeginDeleteCost ==
  \E c \in db.additionalCosts :
    BeginCascade("deleteCost", c.costId, deleteCostSteps(db, c.costId))

BeginDismissPayment ==
  \E p \in db.payments :
    BeginCascade("dismissPayment", p.paymentId,
                 deletePaymentSteps(db, p.paymentId))

BeginDeletePayment ==
  \E p \in db.payments :
    BeginCascade("deletePayment", p.paymentId,
                 deletePaymentSteps(db, p.paymentId))

BeginDeleteOrder ==
  \E orderId \in OrderIds :
    /\ firstOrder(db, orderId) # 0
    /\ BeginCascade("deleteOrder", orderId, deleteOrderSteps(db, orderId))

\* The next await ctx.db.delete: the row is removed, or, if it is no longer
\* stored, the call throws and the handler ends there.
CascadeStep ==
  /\ txn.pc = "running"
  /\ txn.steps # <<>>
  /\ IF stored(db, Head(txn.steps))
     THEN /\ db'  = applyDelete(db, Head(txn.steps))
          /\ txn' = [txn EXCEPT !.steps = Tail(@)]
     ELSE /\ db'  = db
          /\ txn' = [txn EXCEPT !.pc = "stopped"]
  /\ UNCHANGED <<pre, last>>

\* The process stops between two deletions: those done stay done.
CascadeStop ==
  /\ txn.pc = "running"
  /\ txn.steps # <<>>
  /\ txn' = [txn EXCEPT !.pc = "stopped"]
  /\ UNCHANGED <<db, pre, last>>

\* return true.
CascadeEnd ==
  /\ txn.pc = "running"
  /\ txn.steps = <<>>
  /\ last' = [op |-> txn.op, id |-> txn.id, ret |-> "true", out |-> ""]
  /\ txn'  = Idle
  /\ UNCHANGED <<db, pre>>

\* One order with two products, a cost linked to the first product, their
\* three stubs, a milestone of the order and one of the first product; the
\* stubs in approved are approved.
RECURSIVE approveAll(_, _)
approveAll(S, paymentIds) ==
  IF paymentIds = <<>> THEN S
  ELSE approveAll(approvePayment(S, Head(paymentIds)).db, Tail(paymentIds))

CrashDb(approved) ==
  LET S1 == createOrder(EmptyDb, 3, 2).db
      a  == CHOOSE x \in ProductArgs : TRUE
      c  == CHOOSE x \in CostArgs : TRUE
      m  == CHOOSE x \in MilestoneArgs : TRUE
      S2 == addProduct(S1, [orderId |-> 1] @@ a).db
      S3 == addProduct(S2, [orderId |-> 1] @@ a).db
      S4 == addCost(S3, [orderId |-> 1] @@ c).db
      S5 == updateCostProductLinks(S4, 1, <<1>>).db
      S6 == addProductMilestone(S5, [productId |-> 1] @@ m).db
      S7 == addOrderMilestone(S6, [orderId |-> 1] @@ m).db
  IN  approveAll(S7, SortIds(approved))

InitCrash ==
  /\ \E approved \in SUBSET {p.paymentId : p \in CrashDb({}).payments} :
       /\ db  = CrashDb(approved)
       /\ pre = CrashDb(approved)
  /\ last = [op |-> "init", id |-> 0, ret |-> "", out |-> ""]
  /\ txn  = Idle

NextCrash ==
  \/ BeginDeleteProduct
  \/ BeginDeleteCost
  \/ BeginDismissPayment
  \/ BeginDeletePayment
  \/ BeginDeleteOrder
  \/ CascadeStep
  \/ CascadeStop
  \/ CascadeEnd

SpecCrash == InitCrash /\ [][NextCrash]_vars

\* ------------------------------------------------- the payment lifecycle

\* The call that just completed was a deleteProduct or deleteCost that
\* returned true.
SourceDeleted ==
  /\ last.op \in {"deleteProduct", "deleteCost"}
  /\ last.ret = "true"

\* In store S, payment paymentId has a link row to the source (product or
\* cost) the last call was addressed to.
LinkedToSource(S, paymentId) ==
  IF last.op = "deleteProduct"
  THEN BagIn([paymentId |-> paymentId, productId |-> last.id],
             S.paymentProductLinks)
  ELSE BagIn([paymentId |-> paymentId, costId |-> last.id],
             S.paymentCostLinks)

\* The link rows of payment paymentId in store S, of both link tables.
ProductLinksOf(S, paymentId) ==
  BagFilter(S.paymentProductLinks, LAMBDA l : l.paymentId = paymentId)

CostLinksOf(S, paymentId) ==
  BagFilter(S.paymentCostLinks, LAMBDA l : l.paymentId = paymentId)

\* C1: after a deleteProduct / deleteCost that returned true, every payment
\* that was pending and linked to the deleted product / cost when the call
\* began is gone, and no row of paymentProductLinks or paymentCostLinks
\* carries its paymentId.
C1_PendingCascade ==
  SourceDeleted =>
    \A pay \in pre.payments :
      (pay.status = "pending" /\ LinkedToSource(pre, pay.paymentId)) =>
        /\ ~\E q \in db.payments : q.paymentId = pay.paymentId
        /\ ProductLinksOf(db, pay.paymentId) = EmptyBag
        /\ CostLinksOf(db, pay.paymentId) = EmptyBag

\* C1 witness: a deleteCost returned true for a cost linked to a pending
\* payment that was also linked to a product.
C1_Witness ==
  /\ last.op = "deleteCost"
  /\ last.ret = "true"
  /\ \E pay \in pre.payments :
       /\ pay.status = "pending"
       /\ LinkedToSource(pre, pay.paymentId)
       /\ ProductLinksOf(pre, pay.paymentId) # EmptyBag

\* The link rows of a payment other than those to the source the last call
\* was addressed to.
OtherLinksOf(S, paymentId) ==
  IF last.op = "deleteProduct"
  THEN <<BagFilter(ProductLinksOf(S, paymentId),
                   LAMBDA l : l.productId # last.id),
         CostLinksOf(S, paymentId)>>
  ELSE <<ProductLinksOf(S, paymentId),
         BagFilter(CostLinksOf(S, paymentId), LAMBDA l : l.costId # last.id)>>

\* C2: after a deleteProduct / deleteCost that returned true, every payment
\* that was approved and linked to the deleted product / cost is still
\* stored, approved, with the same amount and currency; it has no link row
\* to the deleted source; its other link rows are the same as before.
C2_ApprovedSurvival ==
  SourceDeleted =>
    \A pay \in pre.payments :
      (pay.status = "approved" /\ LinkedToSource(pre, pay.paymentId)) =>
        /\ \E q \in db.payments :
             /\ q.paymentId = pay.paymentId
             /\ q.status = "approved"
             /\ q.amount = pay.amount
             /\ q.currency = pay.currency
        /\ ~LinkedToSource(db, pay.paymentId)
        /\ OtherLinksOf(db, pay.paymentId) = OtherLinksOf(pre, pay.paymentId)

\* C2 witness: a deleteProduct returned true for a product linked to an
\* approved payment that has a link row to another product or to a cost.
C2_Witness ==
  /\ last.op = "deleteProduct"
  /\ last.ret = "true"
  /\ \E pay \in pre.payments :
       /\ pay.status = "approved"
       /\ LinkedToSource(pre, pay.paymentId)
       /\ OtherLinksOf(pre, pay.paymentId) # <<EmptyBag, EmptyBag>>

\* The rows a call to addProduct / addCost added to the payments table.
NewPayments == db.payments \ pre.payments

\* C3: a call to addProduct (addCost) adds exactly one payments row: pending,
\* of the new item's order, for the product's priceTotal (the cost's
\* amount); it adds exactly one link row, joining that payment to the new
\* product (cost); every payment row and link row stored before is still
\* stored unchanged.
C3_StubCreation ==
  /\ last.op = "addProduct" =>
       \E item \in db.products \ pre.products :
         /\ item.productId = last.id
         /\ Cardinality(NewPayments) = 1
         /\ pre.payments \subseteq db.payments
         /\ \A pay \in NewPayments :
              /\ pay.status = "pending"
              /\ pay.orderId = item.orderId
              /\ pay.amount = item.priceTotal
              /\ ~\E q \in pre.payments : q.paymentId = pay.paymentId
              /\ db.paymentProductLinks =
                   pre.paymentProductLinks (+)
                     SetToBag({[paymentId |-> pay.paymentId,
                                productId |-> item.productId]})
         /\ db.paymentCostLinks = pre.paymentCostLinks
  /\ last.op = "addCost" =>
       \E item \in db.additionalCosts \ pre.additionalCosts :
         /\ item.costId = last.id
         /\ Cardinality(NewPayments) = 1
         /\ pre.payments \subseteq db.payments
         /\ \A pay \in NewPayments :
              /\ pay.status = "pending"
              /\ pay.orderId = item.orderId
              /\ pay.amount = item.amount
              /\ ~\E q \in pre.payments : q.paymentId = pay.paymentId
              /\ db.paymentCostLinks =
                   pre.paymentCostLinks (+)
                     SetToBag({[paymentId |-> pay.paymentId,
                                costId |-> item.costId]})
         /\ db.paymentProductLinks = pre.paymentProductLinks

\* C3 witness: addProduct completed on a store that already held a payment
\* with link rows.
C3_Witness ==
  /\ last.op = "addProduct"
  /\ pre.payments # {}
  /\ pre.paymentCostLinks # EmptyBag

\* The sum of the converted amounts of the approved payments of an order,
\* taken payment by payment from the payments table.
ApprovedPaidILS(S, order) ==
  Sum([i \in 1..S.ids.payment |->
         IF \E p \in S.payments : /\ p.paymentId = i
                                  /\ p.orderId = order.orderId
                                  /\ p.status = "approved"
         THEN LET p == CHOOSE q \in S.payments : q.paymentId = i
              IN  toILS(p.amount, p.currency, order.usdRate, order.cnyRate)
         ELSE 0])

\* The summary getOrderFull returns for a stored order.
SummaryOf(S, orderId) == getOrderFull(S, orderId).summary

HasOrder(S, orderId) == firstOrder(S, orderId) # 0

\* C4: in every reachable state, for every stored order, the summary of
\* getOrderFull has totalOrderILS = totalProductsILS + totalCostsILS and
\* balanceILS = totalOrderILS - totalPaidILS, and totalPaidILS is the sum of
\* the converted amounts of the order's approved payments only.
C4_BalanceInvariant ==
  \A orderId \in OrderIds :
    HasOrder(db, orderId) =>
      LET s == SummaryOf(db, orderId)
      IN  /\ s.totalOrderILS = s.totalProductsILS + s.totalCostsILS
          /\ s.balanceILS = s.totalOrderILS - s.totalPaidILS
          /\ s.totalPaidILS =
               ApprovedPaidILS(db, db.orders[firstOrder(db, orderId)])

\* C4 witness: a stored order with a product, a cost, an approved payment
\* and a pending payment, both of a non-zero amount.
C4_Witness ==
  \E orderId \in OrderIds :
    /\ HasOrder(db, orderId)
    /\ \E p \in db.products : p.orderId = orderId
    /\ \E c \in db.additionalCosts : c.orderId = orderId
    /\ \E a, b \in db.payments :
         /\ a.orderId = orderId /\ a.status = "approved" /\ a.amount # 0
         /\ b.orderId = orderId /\ b.status = "pending" /\ b.amount # 0
    /\ SummaryOf(db, orderId).totalPaidILS # 0

\* The last call changed nothing of payment pay (as stored before the call)
\* but its status, from `from` to `to`.
StatusToggled(pay, from, to) ==
  /\ last.op \in {"approvePayment", "updatePayment"}
  /\ last.ret = "true"
  /\ last.id = pay.paymentId
  /\ pay.status = from
  /\ [pay EXCEPT !.status = to] \in db.payments

\* C5: when a call changes only the status of a payment of a stored order
\* from pending to approved, the order's totalPaidILS rises by the
\* payment's amountILS and balanceILS falls by it; from approved to pending
\* the reverse; totalProductsILS, totalCostsILS and totalOrderILS stay.
C5_StatusToggleDelta ==
  \A pay \in pre.payments :
    HasOrder(pre, pay.orderId) =>
      LET order     == pre.orders[firstOrder(pre, pay.orderId)]
          amountILS == toILS(pay.amount, pay.currency,
                             order.usdRate, order.cnyRate)
          before    == SummaryOf(pre, pay.orderId)
          after     == SummaryOf(db, pay.orderId)
          SameTotals ==
            /\ after.totalProductsILS = before.totalProductsILS
            /\ after.totalCostsILS = before.totalCostsILS
            /\ after.totalOrderILS = before.totalOrderILS
      IN  /\ StatusToggled(pay, "pending", "approved") =>
               /\ after.totalPaidILS = before.totalPaidILS + amountILS
               /\ after.balanceILS = before.balanceILS - amountILS
               /\ SameTotals
          /\ StatusToggled(pay, "approved", "pending") =>
               /\ after.totalPaidILS = before.totalPaidILS - amountILS
               /\ after.balanceILS = before.balanceILS + amountILS
               /\ SameTotals

\* C5 witness: a payment in a currency with a rate other than 1, of a
\* stored order that has another approved payment, was set back from
\* approved to pending by updatePayment.
C5_Witness ==
  \E pay \in pre.payments :
    /\ HasOrder(pre, pay.orderId)
    /\ last.op = "updatePayment"
    /\ StatusToggled(pay, "approved", "pending")
    /\ pay.currency # "ILS"
    /\ pay.amount # 0
    /\ SummaryOf(db, pay.orderId).totalPaidILS # 0

\* C6: a payment that is approved before a call is stored and approved
\* after it, unless the call is a deletePayment, dismissPayment or
\* updatePayment addressed to it or a deleteOrder of its order.
C6_ApprovedImmune ==
  \A pay \in pre.payments :
    pay.status = "approved" =>
      \/ \E q \in db.payments :
           q.paymentId = pay.paymentId /\ q.status = "approved"
      \/ /\ last.op \in {"deletePayment", "dismissPayment", "updatePayment"}
         /\ last.id = pay.paymentId
      \/ /\ last.op = "deleteOrder"
         /\ last.id = pay.orderId

\* C6 witness: a deleteProduct returned true for a product whose stub had
\* been approved, and the payment is still stored.
C6_Witness ==
  /\ last.op = "deleteProduct"
  /\ last.ret = "true"
  /\ \E pay \in pre.payments :
       /\ pay.status = "approved"
       /\ BagIn([paymentId |-> pay.paymentId, productId |-> last.id],
                pre.paymentProductLinks)
       /\ pay \in db.payments
       /\ pre.additionalCosts # {}

\* ------------------------------------------------------- the allocation

\* getOrderFull has just answered for a stored order.
Answered == last.op = "getOrderFull" /\ HasOrder(db, last.id)

AnsweredOrder == db.orders[firstOrder(db, last.id)]

\* The product rows of the answered order.
AllProducts == {p \in db.products : p.orderId = last.id}

\* The productIds named by the rows of costProductLinks of a cost that have
\* isLinked = TRUE.
TrueRowIds(cost) ==
  {l.productId : l \in {m \in DOMAIN db.costProductLinks :
                          m.costId = cost.costId /\ m.isLinked = TRUE}}

\* The linked set of a cost: the products named by its rows with
\* isLinked = TRUE, every product of the order when it has no such row.
LinkedSet(cost) ==
  IF TrueRowIds(cost) = {} THEN AllProducts
  ELSE {p \in AllProducts : p.productId \in TrueRowIds(cost)}

\* The allocation key of a product under a method: stored cbmTotal, stored
\* kgTotal, quantity, or the priceTotal converted from the product's own
\* currency.
KeyOf(method, product) ==
  CASE method = "volume"   -> product.cbmTotal
    [] method = "weight"   -> product.kgTotal
    [] method = "quantity" -> product.quantity
    [] method = "cost"     ->
         toILS(product.priceTotal, product.currency,
               AnsweredOrder.usdRate, AnsweredOrder.cnyRate)

\* The sum of the keys over a set of product rows.
KeySum(method, L) ==
  Sum([i \in 1..db.ids.product |->
         IF \E p \in L : p.productId = i
         THEN KeyOf(method, CHOOSE p \in L : p.productId = i)
         ELSE 0])

CostILSOf(cost) ==
  toILS(cost.amount, cost.currency,
        AnsweredOrder.usdRate, AnsweredOrder.cnyRate)

\* The share of a cost for a product when the cost is allocated over the
\* set L of products.
ShareOver(product, cost, L) ==
  IF product \notin L THEN Rat(0)
  ELSE IF cost.allocationMethod = "equal"
  THEN Frac(CostILSOf(cost), Cardinality(L))
  ELSE IF KeySum(cost.allocationMethod, L) > 0
  THEN Frac(CostILSOf(cost) * KeyOf(cost.allocationMethod, product),
            KeySum(cost.allocationMethod, L))
  ELSE Rat(0)

\* C7: when no cost of the order has a costProductLinks row with isLinked =
\* TRUE (it has no row, or only rows with isLinked = FALSE), getOrderFull
\* gives every product, as additionalCostsILS, the sum of its shares of the
\* costs allocated over all products of the order.
C7_DefaultLinkage ==
  (Answered /\ \A c \in Range(last.out.costs) : TrueRowIds(c.cost) = {}) =>
    \A i \in 1..Len(last.out.products) :
      last.out.products[i].additionalCostsILS =
        RSumSeq(last.out.costs, LAMBDA c :
          ShareOver(last.out.products[i].product, c.cost, AllProducts))

\* C7 witness: the order has two products with different keys and a cost,
\* not allocated equally, whose only link rows have isLinked = FALSE, one of
\* them naming the first product; both products receive a share.
C7_Witness ==
  /\ Answered
  /\ \A c \in Range(last.out.costs) : TrueRowIds(c.cost) = {}
  /\ \E c \in Range(last.out.costs) :
       /\ c.cost.allocationMethod # "equal"
       /\ [costId |-> c.cost.costId, productId |-> 1, isLinked |-> FALSE]
            \in DOMAIN db.costProductLinks
  /\ Len(last.out.products) = 2
  /\ \A i \in 1..2 : last.out.products[i].additionalCostsILS.n > 0
  /\ last.out.products[1].additionalCostsILS #
       last.out.products[2].additionalCostsILS

\* C8: when every cost of the order has a row with isLinked = TRUE, a
\* product named by no such row of any cost has additionalCostsILS zero, and
\* every product has the sum of its shares of the costs allocated over the
\* products named by those rows alone.
C8_Exclusion ==
  (Answered /\ \A c \in Range(last.out.costs) : TrueRowIds(c.cost) # {}) =>
    \A i \in 1..Len(last.out.products) :
      LET item == last.out.products[i]
      IN  /\ (\A c \in Range(last.out.costs) :
                item.product.productId \notin TrueRowIds(c.cost)) =>
               item.additionalCostsILS = Rat(0)
          /\ item.additionalCostsILS =
               RSumSeq(last.out.costs, LAMBDA c :
                 ShareOver(item.product, c.cost,
                           {p \in AllProducts :
                              p.productId \in TrueRowIds(c.cost)}))

\* C8 witness: a cost allocated by a key is linked to two of three products
\* that all have a positive key; the product left out gets nothing.
C8_Witness ==
  /\ Answered
  /\ Len(last.out.costs) = 1
  /\ Len(last.out.products) = 3
  /\ \E c \in Range(last.out.costs) :
       /\ c.cost.allocationMethod = "weight"
       /\ TrueRowIds(c.cost) = {1, 3}
  /\ \A i \in 1..3 : last.out.products[i].product.kgTotal > 0
  /\ last.out.products[2].additionalCostsILS = Rat(0)
  /\ last.out.products[1].additionalCostsILS.n > 0

\* C9: getOrderFull gives every product, as additionalCostsILS, the sum over
\* the costs of the order of costILS / |L| for the equal method and of
\* costILS * key(p) / (sum of key over L) for the other four when that sum
\* is positive, L being the linked set and key the stored cbmTotal, the
\* stored kgTotal, the quantity, or the priceTotal in ILS.
C9_AllocationFormulas ==
  Answered =>
    \A i \in 1..Len(last.out.products) :
      last.out.products[i].additionalCostsILS =
        RSumSeq(last.out.costs, LAMBDA c :
          ShareOver(last.out.products[i].product, c.cost, LinkedSet(c.cost)))

\* C9 witness: two costs, one by volume and one by cost, over two products
\* in different currencies whose stored totals differ from quantity times
\* the per-unit figure.
C9_Witness ==
  /\ Answered
  /\ {c.cost.allocationMethod : c \in Range(last.out.costs)} =
       {"volume", "cost"}
  /\ Len(last.out.products) = 2
  /\ last.out.products[1].product.currency #
       last.out.products[2].product.currency
  /\ \A i \in 1..2 :
       LET p == last.out.products[i].product
       IN  /\ p.cbmTotal # p.quantity * p.cbmPerUnit
           /\ p.cbmTotal > 0
  /\ \A i \in 1..2 : last.out.products[i].additionalCostsILS.d # 1

\* A cost whose linked set is not empty and whose denominator is positive.
Allocatable(cost) ==
  /\ LinkedSet(cost) # {}
  /\ \/ cost.allocationMethod = "equal"
     \/ KeySum(cost.allocationMethod, LinkedSet(cost)) > 0

\* C10: for every cost with a non-empty linked set and a positive
\* denominator the shares of the products sum to costILS; when every cost of
\* the order is such a cost, the finalCostILS of the products sum to
\* summary.totalOrderILS.
C10_Conservation ==
  Answered =>
    /\ \A c \in Range(last.out.costs) :
         Allocatable(c.cost) =>
           RSumSeq(last.out.products, LAMBDA p :
             costShare(p.product, c.cost, productsOf(db, last.id),
                       DOMAIN db.costProductLinks,
                       AnsweredOrder.usdRate, AnsweredOrder.cnyRate))
             = Rat(c.amountILS)
    /\ (\A c \in Range(last.out.costs) : Allocatable(c.cost)) =>
         RSumSeq(last.out.products, LAMBDA p : p.finalCostILS)
           = Rat(last.out.summary.totalOrderILS)

\* C10 witness: two allocatable costs by different methods, one of them by
\* cost, linked to different sets of three products, with fractional shares.
C10_Witness ==
  /\ Answered
  /\ Len(last.out.costs) = 2
  /\ Len(last.out.products) = 3
  /\ \A c \in Range(last.out.costs) : Allocatable(c.cost)
  /\ last.out.costs[1].cost.allocationMethod = "cost"
  /\ last.out.costs[2].cost.allocationMethod = "quantity"
  /\ TrueRowIds(last.out.costs[1].cost) = {}
  /\ TrueRowIds(last.out.costs[2].cost) # {}
  /\ \E i \in 1..3 : last.out.products[i].finalCostILS.d # 1
  /\ last.out.summary.totalCostsILS > 0

\* A defined amount: a ratio with a positive denominator.
Defined(r) == r.d > 0

\* C11: in the result of getOrderFull every amount is defined; a cost
\* allocated by a key whose sum over the linked set is zero gives every
\* product the share zero; an order without products has no product rows in
\* the result, whatever its costs; a product of quantity zero has
\* finalCostPerUnitILS zero.
C11_NoDivisionByZero ==
  Answered =>
    /\ \A c \in Range(last.out.costs) :
         (/\ c.cost.allocationMethod # "equal"
          /\ KeySum(c.cost.allocationMethod, LinkedSet(c.cost)) = 0) =>
           \A p \in AllProducts :
             costShare(p, c.cost, productsOf(db, last.id),
                       DOMAIN db.costProductLinks,
                       AnsweredOrder.usdRate, AnsweredOrder.cnyRate) = Rat(0)
    /\ (\A c \in Range(last.out.costs) :
          /\ c.cost.allocationMethod # "equal"
          /\ KeySum(c.cost.allocationMethod, LinkedSet(c.cost)) = 0) =>
         \A i \in 1..Len(last.out.products) :
           last.out.products[i].additionalCostsILS = Rat(0)
    /\ AllProducts = {} => last.out.products = <<>>
    /\ \A i \in 1..Len(last.out.products) :
         LET item == last.out.products[i]
         IN  /\ Defined(item.additionalCostsILS)
             /\ Defined(item.finalCostILS)
             /\ Defined(item.finalCostPerUnitILS)
             /\ item.product.quantity = 0 =>
                  item.finalCostPerUnitILS = Rat(0)

\* C11 witness: a cost allocated by weight is linked to two products that
\* both weigh nothing, beside a third product that weighs something; none of
\* them gets a share, and the products of quantity zero have a price.
C11_Witness ==
  /\ Answered
  /\ Len(last.out.costs) = 1
  /\ last.out.costs[1].cost.allocationMethod = "weight"
  /\ last.out.costs[1].amountILS > 0
  /\ TrueRowIds(last.out.costs[1].cost) = {1, 2}
  /\ Len(last.out.products) = 3
  /\ last.out.products[3].product.kgTotal > 0
  /\ \A i \in 1..2 :
       /\ last.out.products[i].product.quantity = 0
       /\ last.out.products[i].product.kgTotal = 0
  /\ \A i \in 1..3 : last.out.products[i].additionalCostsILS = Rat(0)

\* An order with costs and without products has been read.
C11_NoProducts == Answered /\ AllProducts = {} /\ last.out.costs # <<>>

\* ------------------------------------------------------- the conversion

\* C12: toILS returns amount * usdRate for "USD", amount * cnyRate for
\* "CNY", the amount itself for "ILS" and amount * usdRate for every other
\* currency code, for every amount and every pair of rates.
C12_CurrencyConversion ==
  last.op = "toILS" =>
    LET a == last.args
    IN  /\ a.currency = "USD" => last.out = a.amount * a.usdRate
        /\ a.currency = "CNY" => last.out = a.amount * a.cnyRate
        /\ a.currency = "ILS" => last.out = a.amount
        /\ a.currency \notin {"USD", "CNY", "ILS"} =>
             last.out = a.amount * a.usdRate

\* C12 witness: an amount in a currency toILS does not name was converted
\* at a USD rate that differs from 1 and from the CNY rate.
C12_Witness ==
  /\ last.op = "toILS"
  /\ last.args.currency = "EUR"
  /\ last.args.amount < 0
  /\ last.args.usdRate > 1
  /\ last.args.usdRate # last.args.cnyRate
  /\ last.out = last.args.amount * last.args.usdRate

\* The store with every cost row but that of costId removed.
OnlyCost(S, costId) ==
  [S EXCEPT !.additionalCosts = {c \in @ : c.costId = costId}]

\* For each cost of the answered order, the product rows getOrderFull
\* returns when that cost is the only cost of the order.
ProductsAlone ==
  {<<c.costId, getOrderFull(OnlyCost(db, c.costId), last.id).products>> :
     c \in {d \in db.additionalCosts : d.orderId = last.id}}

\* What the i-th product gets as additionalCostsILS from a cost that is the
\* only cost of the order; alone is ProductsAlone.
ShareAlone(alone, i, cost) ==
  (CHOOSE a \in alone : a[1] = cost.costId)[2][i].additionalCostsILS

\* C13: in the result of getOrderFull a product's additionalCostsILS is the
\* sum, over the costs of the order whose linked set holds the product, of
\* the share it gets from that cost when the order has no other cost; a
\* cost whose linked set does not hold it gives it nothing; and finalCostILS
\* is priceILS + additionalCostsILS.
C13_AdditiveIndependent ==
  Answered =>
    \A alone \in {ProductsAlone} :
        \A i \in 1..Len(last.out.products) :
          LET item == last.out.products[i]
          IN  /\ item.additionalCostsILS =
                   RSumSeq(last.out.costs, LAMBDA c :
                     IF item.product \in LinkedSet(c.cost)
                     THEN ShareAlone(alone, i, c.cost)
                     ELSE Rat(0))
              /\ \A c \in Range(last.out.costs) :
                   item.product \notin LinkedSet(c.cost) =>
                     ShareAlone(alone, i, c.cost) = Rat(0)
              /\ item.finalCostILS =
                   RAdd(Rat(item.priceILS), item.additionalCostsILS)
              /\ item.priceILS =
                   toILS(item.product.priceTotal, item.product.currency,
                         AnsweredOrder.usdRate, AnsweredOrder.cnyRate)

\* C13 witness: two costs by different methods; the first product is in the
\* linked set of both and gets a positive share of each, the second is in
\* the linked set of one only.
C13_Witness ==
  /\ Answered
  /\ Len(last.out.costs) = 2
  /\ Len(last.out.products) >= 2
  /\ last.out.costs[1].cost.allocationMethod #
       last.out.costs[2].cost.allocationMethod
  /\ \A c \in Range(last.out.costs) :
       /\ last.out.products[1].product \in LinkedSet(c.cost)
       /\ ShareAlone(ProductsAlone, 1, c.cost).n > 0
  /\ last.out.products[2].product \notin LinkedSet(last.out.costs[1].cost)
  /\ last.out.products[2].product \in LinkedSet(last.out.costs[2].cost)
  /\ last.out.products[2].additionalCostsILS.n > 0

\* ------------------------------------------------- dismissing a payment

\* The rows of a link table that do not belong to payment paymentId are the
\* same, copy for copy, in B and in A, and A holds no row of the payment.
OnlyLinksOfRemoved(B, A, paymentId) ==
  \A r \in DOMAIN B \cup DOMAIN A :
    IF r.paymentId = paymentId
    THEN ~BagIn(r, A)
    ELSE CopiesIn(r, A) = CopiesIn(r, B)

\* C14: dismissPayment on a stored pending payment returns true, removes
\* the payment row and every paymentProductLinks and paymentCostLinks row
\* of the payment, and leaves the orders, products, costs, cost-product
\* links, the other payments and the other payments' links as they were.
C14_Dismiss ==
  \A pay \in pre.payments :
    (/\ last.op = "dismissPayment"
     /\ last.id = pay.paymentId
     /\ pay.status = "pending") =>
      /\ last.ret = "true"
      /\ db.payments = pre.payments \ {pay}
      /\ OnlyLinksOfRemoved(pre.paymentProductLinks, db.paymentProductLinks,
                            pay.paymentId)
      /\ OnlyLinksOfRemoved(pre.paymentCostLinks, db.paymentCostLinks,
                            pay.paymentId)
      /\ db.products = pre.products
      /\ db.additionalCosts = pre.additionalCosts
      /\ db.costProductLinks = pre.costProductLinks
      /\ db.orders = pre.orders

\* C14 witness: the dismissed pending payment had a product link and a cost
\* link, and another payment with a link of its own is still stored.
C14_Witness ==
  /\ last.op = "dismissPayment"
  /\ last.ret = "true"
  /\ \E pay \in pre.payments :
       /\ pay.paymentId = last.id
       /\ pay.status = "pending"
       /\ \E r \in DOMAIN pre.paymentProductLinks : r.paymentId = last.id
       /\ \E r \in DOMAIN pre.paymentCostLinks : r.paymentId = last.id
  /\ \E other \in db.payments :
       \E r \in DOMAIN db.paymentCostLinks : r.paymentId = other.paymentId
  /\ db.products # {}
  /\ db.additionalCosts # {}

\* ------------------------------------------------- replacing link sets

\* The rows of a link table whose field f is not id are the same, copy for
\* copy, in B and in A.
OtherRowsSame(B, A, f, id) ==
  \A r \in DOMAIN B \cup DOMAIN A :
    r[f] # id => CopiesIn(r, A) = CopiesIn(r, B)

\* The ids in field g of the rows of a link table whose field f is id.
LinkedIds(B, f, id, g) == {r[g] : r \in {q \in DOMAIN B : q[f] = id}}

\* C15: after updateCostProductLinks(costId, S) the productIds of the rows
\* of costId are exactly those of S, each row has isLinked = TRUE, and the
\* rows of every other cost are as before; after updatePaymentLinks(
\* paymentId, P, C) the product links of the payment are exactly P, its
\* cost links exactly C, and the rows of every other payment are as before;
\* the same call made again leaves the link tables as they are.
C15_ReplaceAll ==
  /\ last.op = "updateCostProductLinks" =>
       /\ LinkedIds(db.costProductLinks, "costId", last.id, "productId")
            = Range(last.args.linkedProductIds)
       /\ \A r \in DOMAIN db.costProductLinks :
            r.costId = last.id => r.isLinked = TRUE
       /\ OtherRowsSame(pre.costProductLinks, db.costProductLinks,
                        "costId", last.id)
       /\ db.paymentProductLinks = pre.paymentProductLinks
       /\ db.paymentCostLinks = pre.paymentCostLinks
       /\ updateCostProductLinks(db, last.id,
                                 last.args.linkedProductIds).db = db
  /\ last.op = "updatePaymentLinks" =>
       /\ LinkedIds(db.paymentProductLinks, "paymentId", last.id,
                    "productId") = Range(last.args.linkedProductIds)
       /\ LinkedIds(db.paymentCostLinks, "paymentId", last.id, "costId")
            = Range(last.args.linkedCostIds)
       /\ OtherRowsSame(pre.paymentProductLinks, db.paymentProductLinks,
                        "paymentId", last.id)
       /\ OtherRowsSame(pre.paymentCostLinks, db.paymentCostLinks,
                        "paymentId", last.id)
       /\ db.costProductLinks = pre.costProductLinks
       /\ updatePaymentLinks(db, last.id, last.args.linkedProductIds,
                             last.args.linkedCostIds).db = db

\* C15 witness: the links of a cost that had a row were replaced by the
\* empty set while the other cost keeps its row.
C15_Witness ==
  /\ last.op = "updateCostProductLinks"
  /\ last.args.linkedProductIds = <<>>
  /\ \E r \in DOMAIN pre.costProductLinks : r.costId = last.id
  /\ \E r \in DOMAIN db.costProductLinks : r.costId # last.id
  /\ \E r \in DOMAIN db.paymentProductLinks : TRUE

\* The cost links of a payment were replaced by another cost while another
\* payment keeps its links.
C15_PaymentLinksReplaced ==
  /\ last.op = "updatePaymentLinks"
  /\ Len(last.args.linkedCostIds) = 1
  /\ \E r \in DOMAIN pre.paymentCostLinks :
       r.paymentId = last.id /\ r.costId \notin Range(last.args.linkedCostIds)
  /\ \E r \in DOMAIN db.paymentCostLinks : r.paymentId # last.id

\* --------------------------------------------- reads beside a mutation

\* The store once the running mutation has committed.
AfterTxn ==
  IF txn.pc = "idle" THEN db
  ELSE updateCostProductLinks(db, txn.id, txn.args.linkedProductIds).db

\* The handler has deleted the rows of the cost and inserted none yet,
\* though the cost had rows and is to have rows.
Halfway ==
  /\ txn.pc = "running"
  /\ \E r \in DOMAIN db.costProductLinks : r.costId = txn.id
  /\ txn.args.linkedProductIds # <<>>
  /\ ~\E r \in DOMAIN txn.view.costProductLinks : r.costId = txn.id

C17_ReadPure ==
  /\ last.op = "getOrderFull" =>
       /\ db = pre
       /\ HasOrder(db, last.id) => last.out = getOrderFull(db, last.id)
       /\ ~HasOrder(db, last.id) => last.out = "null"
  /\ last.op = "getAllOrders" =>
       /\ db = pre
       /\ last.out = getAllOrders(db)

\* C17 witness: getOrderFull answered for an order with a product, a cost,
\* a link row between them and an approved payment.
C17_Witness ==
  /\ last.op = "getOrderFull"
  /\ HasOrder(db, last.id)
  /\ Len(last.out.products) > 0
  /\ Len(last.out.costs) > 0
  /\ last.out.links # EmptyBag
  /\ last.out.summary.totalPaidILS > 0

\* getOrderFull was asked for an orderId whose order has been deleted while
\* rows of other tables are stored.
C17_NullRead ==
  /\ last.op = "getOrderFull"
  /\ ~HasOrder(db, last.id)
  /\ db.products # {}

\* getAllOrders answered for a store with an order that has products.
C17_AllOrdersRead ==
  /\ last.op = "getAllOrders"
  /\ Len(last.out) > 0
  /\ last.out[1].productCount > 0

\* ------------------------------------------------------------ not found

\* The last call was addressed to an id that no row of its table had.
NotFound ==
  \/ /\ last.op \in {"updateOrder", "deleteOrder"}
     /\ ~HasOrder(pre, last.id)
  \/ /\ last.op \in {"updateProduct", "deleteProduct"}
     /\ ~\E p \in pre.products : p.productId = last.id
  \/ /\ last.op \in {"updateCost", "deleteCost"}
     /\ ~\E c \in pre.additionalCosts : c.costId = last.id
  \/ /\ last.op \in {"updatePayment", "approvePayment", "dismissPayment",
                     "deletePayment"}
     /\ ~\E p \in pre.payments : p.paymentId = last.id

\* C18: updateOrder, deleteOrder, updateProduct, deleteProduct, updateCost,
\* deleteCost, updatePayment, approvePayment, dismissPayment and
\* deletePayment addressed to an id that no stored row has return false and
\* leave every table as it was.
C18_NotFoundIsFalse ==
  NotFound => (last.ret = "false" /\ db = pre)

\* C18 witness: deletePayment was addressed to a payment deleted before,
\* of which link rows are stored.
C18_Witness ==
  /\ NotFound
  /\ last.op = "deletePayment"
  /\ last.id <= db.ids.payment
  /\ \E r \in DOMAIN db.paymentProductLinks : r.paymentId = last.id
  /\ db.payments # {}

\* ----------------------------------------------------- order identifiers

\* C19: no two stored order rows have the same orderId, and the orderId
\* createOrder returns is that of no order row stored before the call.
C19_OrderIdsUnique ==
  /\ \A i, j \in 1..Len(db.orders) :
       db.orders[i].orderId = db.orders[j].orderId => i = j
  /\ last.op = "createOrder" =>
       \A i \in 1..Len(pre.orders) : pre.orders[i].orderId # last.id

\* ------------------------------------------------------- no stale totals

\* The converted prices of the products and the converted amounts of the
\* costs of the answered order, summed row by row from the tables.
C20_PriceTotal(order) ==
  Sum([i \in 1..db.ids.product |->
         IF \E p \in AllProducts : p.productId = i
         THEN LET p == CHOOSE q \in AllProducts : q.productId = i
              IN  toILS(p.priceTotal, p.currency, order.usdRate, order.cnyRate)
         ELSE 0])

C20_CostTotal(order) ==
  Sum([i \in 1..db.ids.cost |->
         IF \E c \in db.additionalCosts : c.costId = i /\ c.orderId = last.id
         THEN LET c == CHOOSE q \in db.additionalCosts : q.costId = i
              IN  toILS(c.amount, c.currency, order.usdRate, order.cnyRate)
         ELSE 0])

\* C20: every figure of an answer of getOrderFull is the one computed from
\* the rows stored when it answers: the order row with its current rates,
\* the order's current products, costs and payments, each amountILS and
\* priceILS converted at the current rates, each additionalCostsILS
\* allocated over the current link rows, and the summary totals summed from
\* them.
C20_NoStaleTotals ==
  Answered =>
    LET out   == last.out
        order == AnsweredOrder
    IN  /\ out.order = order
        /\ {out.products[i].product : i \in 1..Len(out.products)} = AllProducts
        /\ Len(out.products) = Cardinality(AllProducts)
        /\ {out.costs[i].cost : i \in 1..Len(out.costs)} =
             {c \in db.additionalCosts : c.orderId = last.id}
        /\ {out.payments[i].payment : i \in 1..Len(out.payments)} =
             {p \in db.payments : p.orderId = last.id}
        /\ \A i \in 1..Len(out.products) :
             LET item == out.products[i]
             IN  /\ item.priceILS =
                      toILS(item.product.priceTotal, item.product.currency,
                            order.usdRate, order.cnyRate)
                 /\ item.additionalCostsILS =
                      RSumSeq(out.costs, LAMBDA c :
                        ShareOver(item.product, c.cost, LinkedSet(c.cost)))
                 /\ item.finalCostILS =
                      RAdd(Rat(item.priceILS), item.additionalCostsILS)
        /\ \A i \in 1..Len(out.costs) :
             /\ out.costs[i].amountILS = CostILSOf(out.costs[i].cost)
             /\ out.costs[i].linkedProductCount =
                  BagCardinality(BagFilter(db.costProductLinks, LAMBDA l :
                    l.costId = out.costs[i].cost.costId /\ l.isLinked))
        /\ \A i \in 1..Len(out.payments) :
             out.payments[i].amountILS =
               toILS(out.payments[i].payment.amount,
                     out.payments[i].payment.currency,
                     order.usdRate, order.cnyRate)
        /\ out.summary.totalProductsILS = C20_PriceTotal(order)
        /\ out.summary.totalCostsILS = C20_CostTotal(order)
        /\ out.summary.totalOrderILS =
             C20_PriceTotal(order) + C20_CostTotal(order)
        /\ out.summary.totalPaidILS = ApprovedPaidILS(db, order)
        /\ out.summary.balanceILS =
             C20_PriceTotal(order) + C20_CostTotal(order)
               - ApprovedPaidILS(db, order)

\* C20 witness: getOrderFull answers for an order whose rates were changed
\* by updateOrder after its product, its cost linked to the product and an
\* approved payment were stored; the figures are those at the new rates.
C20_Witness ==
  /\ Answered
  /\ \A r \in RatePairs : AnsweredOrder.usdRate # r[1]
  /\ Len(last.out.products) > 0
  /\ Len(last.out.costs) > 0
  /\ last.out.costs[1].linkedProductCount > 0
  /\ last.out.summary.totalPaidILS > 0
  /\ last.out.products[1].priceILS =
       last.out.products[1].product.priceTotal * AnsweredOrder.usdRate
  /\ last.out.products[1].priceILS > 0

\* ------------------------------------------------------------------ C21

\* The calls that neither create nor delete a line item or a payment.
FrameOps ==
  {"updateOrder", "updateProduct", "updateCost", "updateCostProductLinks",
   "addMilestoneType", "seedMilestoneType", "updateMilestoneType",
   "deleteMilestoneType", "addOrderMilestone", "updateOrderMilestone",
   "deleteOrderMilestone", "addProductMilestone", "updateProductMilestone",
   "deleteProductMilestone", "addLegacyMilestone", "addSupplier",
   "seedSupplier", "updateSupplier", "deleteSupplier"}

\* C21: updateProduct, updateCost, updateOrder, updateCostProductLinks and
\* every milestone and supplier mutation leave the payments table and both
\* payment link tables exactly as they were: no stub is created and no
\* stored stub changes its amount, whatever the update changes.
C21_PaymentsFramed ==
  last.op \in FrameOps =>
    /\ db.payments = pre.payments
    /\ db.paymentProductLinks = pre.paymentProductLinks
    /\ db.paymentCostLinks = pre.paymentCostLinks

\* updateProduct has changed the priceTotal of a product whose pending stub
\* is stored with the old priceTotal as its amount.
C21_Witness ==
  /\ last.op = "updateProduct"
  /\ last.ret = "true"
  /\ \E old \in pre.products, new \in db.products :
       /\ old.productId = last.id
       /\ new.productId = last.id
       /\ new.priceTotal # old.priceTotal
       /\ \E pay \in db.payments :
            /\ pay.status = "pending"
            /\ pay.amount = old.priceTotal
            /\ BagIn([paymentId |-> pay.paymentId, productId |-> last.id],
                     db.paymentProductLinks)

\* ------------------------------------------------------------------ C22

\* The contents the two payment link tables can have over the ids in use.
AltProductLinks ==
  {SetToBag(R) : R \in SUBSET [paymentId : 1..MaxPayments,
                               productId : 1..MaxProducts]}

AltCostLinks ==
  {SetToBag(R) : R \in SUBSET [paymentId : 1..MaxPayments,
                               costId : 1..MaxCosts]}

\* What getOrderFull reports of the line items, the payments and the order.
Figures(out) ==
  [products |-> out.products, costs |-> out.costs,
   payments |-> out.payments, summary |-> out.summary]

\* C22: a store that differs from the one read only in the rows of
\* paymentProductLinks and paymentCostLinks gives, from getOrderFull, the
\* same product figures, the same cost and payment amountILS and the same
\* summary: the payment links weigh in no computed figure.
C22_PaymentLinksInert ==
  Answered =>
    \A ppl \in AltProductLinks, pcl \in AltCostLinks :
      Figures(getOrderFull([db EXCEPT !.paymentProductLinks = ppl,
                                      !.paymentCostLinks = pcl],
                           last.id))
        = Figures(last.out)

\* getOrderFull has answered for an order with a product, a cost and an
\* approved payment that is linked to both.
C22_Witness ==
  /\ Answered
  /\ Len(last.out.products) > 0
  /\ Len(last.out.costs) > 0
  /\ last.out.summary.totalPaidILS > 0
  /\ \E l \in DOMAIN db.paymentProductLinks, m \in DOMAIN db.paymentCostLinks :
       /\ l.paymentId = m.paymentId
       /\ \E p \in db.payments :
            p.paymentId = l.paymentId /\ p.status = "approved"

\* ------------------------------------------------------------------ C23

\* C23: dismiss is a transition out of pending only: dismissPayment called
\* on a payment that is approved removes neither the payment nor any of its
\* link rows.
C23_DismissPendingOnly ==
  \A pay \in pre.payments :
    (/\ last.op = "dismissPayment"
     /\ pay.paymentId = last.id
     /\ pay.status = "approved") =>
      /\ pay \in db.payments
      /\ ProductLinksOf(db, pay.paymentId) = ProductLinksOf(pre, pay.paymentId)
      /\ CostLinksOf(db, pay.paymentId) = CostLinksOf(pre, pay.paymentId)

\* ------------------------------------------------------------------ C24

\* The link rows of a store that name a product, a cost or a payment that
\* is not stored.
Orphans(S) ==
  {Del("costProductLinks", l) : l \in
     {x \in DOMAIN S.costProductLinks :
        \/ ~\E p \in S.products : p.productId = x.productId
        \/ ~\E c \in S.additionalCosts : c.costId = x.costId}}
  \cup
  {Del("paymentProductLinks", l) : l \in
     {x \in DOMAIN S.paymentProductLinks :
        \/ ~\E p \in S.products : p.productId = x.productId
        \/ ~\E p \in S.payments : p.paymentId = x.paymentId}}
  \cup
  {Del("paymentCostLinks", l) : l \in
     {x \in DOMAIN S.paymentCostLinks :
        \/ ~\E c \in S.additionalCosts : c.costId = x.costId
        \/ ~\E p \in S.payments : p.paymentId = x.paymentId}}

\* C24: when the row deletions of a cascading delete are separate steps and
\* the process stops after one of them, link rows can be left that name a
\* row no longer stored.  They arise in deleteOrder, which deletes a product
\* or cost row before the payment links that name it: each is a payment
\* link row whose payment is still stored and whose product or cost was
\* stored when the cascade began.  deleteProduct, deleteCost,
\* dismissPayment and deletePayment delete every link row before the row it
\* names and leave none; a cascade that runs to its end leaves none.
C24_CrashOrphans ==
  /\ txn.pc = "idle" => Orphans(db) = {}
  /\ txn.pc # "idle" =>
       /\ Orphans(pre) = {}
       /\ txn.op # "deleteOrder" => Orphans(db) = {}
       /\ \A o \in Orphans(db) :
            /\ o.table \in {"paymentProductLinks", "paymentCostLinks"}
            /\ \E p \in db.payments : p.paymentId = o.row.paymentId
            /\ o.table = "paymentProductLinks" =>
                 \E p \in pre.products \ db.products :
                   p.productId = o.row.productId
            /\ o.table = "paymentCostLinks" =>
                 \E c \in pre.additionalCosts \ db.additionalCosts :
                   c.costId = o.row.costId

\* A cascade that has run to its end leaves the store its handler leaves
\* when run as one transaction.
C24_StepsAgree ==
  (txn.pc = "idle" /\ last.op # "init") =>
    db = CASE last.op = "deleteProduct" ->
                deleteProduct(pre, last.id,
                  InOrder(BagFilter(pre.paymentProductLinks,
                                    LAMBDA l : l.productId = last.id))).db
           [] last.op = "deleteCost" ->
                deleteCost(pre, last.id,
                  InOrder(BagFilter(pre.paymentCostLinks,
                                    LAMBDA l : l.costId = last.id))).db
           [] last.op = "dismissPayment" -> dismissPayment(pre, last.id).db
           [] last.op = "deletePayment" -> deletePayment(pre, last.id).db
           [] last.op = "deleteOrder" -> deleteOrder(pre, last.id).db

\* A deleteOrder has stopped after deleting a product row and before
\* deleting the payment link rows that name the product.
C24_Witness ==
  /\ txn.pc = "stopped"
  /\ txn.op = "deleteOrder"
  /\ \E o \in Orphans(db) :
       /\ o.table = "paymentProductLinks"
       /\ \E p \in pre.products : p.productId = o.row.productId
       /\ ~\E p \in db.products : p.productId = o.row.productId

\* ------------------------------------------------------------------ C25

\* C25: after any sequence of completed mutations whose link arguments and
\* addressed costs and payments are stored rows, every costProductLinks row
\* names a stored cost and a stored product, every paymentProductLinks row
\* a stored payment and a stored product, every paymentCostLinks row a
\* stored payment and a stored cost; also after deleteOrder has deleted an
\* order whose product or cost a payment of another order is linked to.
C25_ReferentialIntegrity == Orphans(db) = {}

\* What does hold over the same calls: an orphan is never a costProductLinks
\* row, and the payment it belongs to is stored; it is the product or the
\* cost that is gone.
C25_OrphansArePaymentLinks ==
  \A o \in Orphans(db) :
    /\ o.table # "costProductLinks"
    /\ \E p \in db.payments : p.paymentId = o.row.paymentId

\* ------------------------------------------------------------------ C26

\* The rows of a store filed under an orderId, and the milestones of the
\* products filed under it.
RowsOfOrder(S, orderId) ==
  [orders     |-> {i \in 1..Len(S.orders) : S.orders[i].orderId = orderId},
   products   |-> {p \in S.products : p.orderId = orderId},
   costs      |-> {c \in S.additionalCosts : c.orderId = orderId},
   payments   |-> {p \in S.payments : p.orderId = orderId},
   milestones |-> {m \in S.orderMilestones : m.orderId = orderId}]

NoRows ==
  [orders |-> {}, products |-> {}, costs |-> {}, payments |-> {},
   milestones |-> {}]

\* The same, with the order rows themselves in place of their positions.
RowsKept(S, orderId) ==
  [RowsOfOrder(S, orderId) EXCEPT
     !.orders = {S.orders[i] : i \in @}]

ProductMilestonesOf(S, productIds) ==
  {m \in S.productMilestones : m.productId \in productIds}

\* deleteOrder has deleted a stored order; what it had to do and to spare.
DeletedOrderCompletely ==
  LET o          == last.id
      productIds == {p.productId : p \in RowsOfOrder(pre, o).products}
      others     == {pre.orders[i].orderId : i \in 1..Len(pre.orders)}
                      \cup LinkedOrderIds
  IN  /\ RowsOfOrder(db, o) = NoRows
      /\ ProductMilestonesOf(db, productIds) = {}
      /\ \A other \in others \ {o} :
           RowsKept(db, other) = RowsKept(pre, other)
      /\ {m \in db.productMilestones : m.productId \notin productIds}
           = {m \in pre.productMilestones : m.productId \notin productIds}

\* C26: after deleteOrder(o) on a stored order no row with orderId o is left
\* in orders, products, additionalCosts, payments (pending or approved) or
\* orderMilestones, no productMilestones row is left for a product that
\* belonged to o, and the rows of every other order are as they were.
C26_DeleteOrderComplete ==
  (last.op = "deleteOrder" /\ last.ret = "true") => DeletedOrderCompletely

\* What does hold: the same when no second stored order row carries the
\* orderId that is deleted.
C26_CompleteWhenUnique ==
  (/\ last.op = "deleteOrder"
   /\ last.ret = "true"
   /\ Cardinality(RowsOfOrder(pre, last.id).orders) = 1)
    => DeletedOrderCompletely

\* ------------------------------------------------------------------ C27

\* The fields the order list and the summary of the order detail share.
ListedTotals(r) ==
  [productCount     |-> r.productCount,
   totalProductsILS |-> r.totalProductsILS,
   totalCostsILS    |-> r.totalCostsILS,
   totalOrderILS    |-> r.totalOrderILS,
   totalPaidILS     |-> r.totalPaidILS,
   balanceILS       |-> r.balanceILS]

\* The order list and the order detail agree on the k-th stored order.
ListAgrees(k) ==
  ListedTotals(getAllOrders(db)[k])
    = ListedTotals(getOrderFull(db, db.orders[k].orderId).summary)

\* C27: in every reachable state and for every stored order, productCount,
\* totalProductsILS, totalCostsILS, totalOrderILS, totalPaidILS and
\* balanceILS of getAllOrders equal the fields of the same name in the
\* summary getOrderFull gives for the order.
C27_ListMatchesDetail ==
  \A k \in 1..Len(db.orders) : ListAgrees(k)

\* What does hold: the two agree on every order whose orderId no other
\* stored order row carries.
C27_MatchWhenUnique ==
  \A k \in 1..Len(db.orders) :
    Cardinality(RowsOfOrder(db, db.orders[k].orderId).orders) = 1
      => ListAgrees(k)

\* ------------------------------------------------------------------ C28

\* The productIds the isLinked rows of a cost name in a store.
ExplicitSet(S, cost) ==
  {l.productId : l \in {m \in DOMAIN S.costProductLinks :
                          m.costId = cost.costId /\ m.isLinked = TRUE}}

\* additionalCostsILS of a product in what getOrderFull answers.
AdditionalOf(S, product) ==
  LET out == getOrderFull(S, product.orderId)
  IN  (CHOOSE x \in Range(out.products) :
         x.product.productId = product.productId).additionalCostsILS

\* The allocation key of a product of an order under a method.
KeyIn(order, method, product) ==
  CASE method = "volume"   -> product.cbmTotal
    [] method = "weight"   -> product.kgTotal
    [] method = "quantity" -> product.quantity
    [] method = "cost"     ->
         toILS(product.priceTotal, product.currency,
               order.usdRate, order.cnyRate)
    [] OTHER -> 1

\* The share of a cost for a product when the cost is allocated over all
\* the products the store holds for the order.
ShareOverAll(S, product, cost) ==
  LET order   == S.orders[firstOrder(S, cost.orderId)]
      all     == productsOf(S, cost.orderId)
      costILS == toILS(cost.amount, cost.currency,
                       order.usdRate, order.cnyRate)
      keySum  == SumSeq(all, LAMBDA q :
                   KeyIn(order, cost.allocationMethod, q))
  IN  IF cost.allocationMethod = "equal" THEN Frac(costILS, Len(all))
      ELSE IF keySum > 0
      THEN Frac(costILS * KeyIn(order, cost.allocationMethod, product), keySum)
      ELSE Rat(0)

\* deleteProduct has deleted the one product the only cost of the order was
\* linked to, and other products of the order remain.
LastLinkedDeleted(cost) ==
  /\ last.op = "deleteProduct"
  /\ last.ret = "true"
  /\ cost \in pre.additionalCosts
  /\ ExplicitSet(pre, cost) = {last.id}
  /\ \E q \in db.products : q.orderId = cost.orderId

\* C28 as stated: once deleteProduct has deleted the only product a cost was
\* linked to, the cost has no link row left and every remaining product of
\* the order, excluded until then, has additionalCostsILS above zero.
C28_ExcludedRise ==
  \A cost \in pre.additionalCosts :
    LastLinkedDeleted(cost) =>
      /\ ~\E l \in DOMAIN db.costProductLinks : l.costId = cost.costId
      /\ \A q \in db.products :
           q.orderId = cost.orderId =>
             /\ AdditionalOf(pre, q) = Rat(0)
             /\ AdditionalOf(db, q).n > 0

\* C28: once deleteProduct has deleted the only product a cost was linked
\* to, the cost has no link row left and is allocated over all remaining
\* products of the order: each of them, excluded until then, goes from zero
\* to its share of the cost over the remaining products, which is above
\* zero unless the cost converts to zero or the method is not equal and the
\* product's allocation key is zero.
C28_Widening ==
  \A cost \in pre.additionalCosts :
    LastLinkedDeleted(cost) =>
      /\ ~\E l \in DOMAIN db.costProductLinks : l.costId = cost.costId
      /\ \A q \in db.products :
           q.orderId = cost.orderId =>
             /\ AdditionalOf(pre, q) = Rat(0)
             /\ AdditionalOf(db, q) = ShareOverAll(db, q, cost)
             /\ AdditionalOf(db, q).n > 0 <=>
                  /\ toILS(cost.amount, cost.currency, 1, 1) > 0
                  /\ \/ cost.allocationMethod = "equal"
                     \/ KeyIn(db.orders[firstOrder(db, q.orderId)],
                              cost.allocationMethod, q) > 0

\* The cost was linked to one of three products; after its deletion both
\* remaining products carry a part of the cost.
C28_Witness ==
  \E cost \in pre.additionalCosts :
    /\ LastLinkedDeleted(cost)
    /\ Cardinality(db.products) = 2
    /\ \A q \in db.products :
         /\ AdditionalOf(pre, q) = Rat(0)
         /\ AdditionalOf(db, q).n > 0

\* ------------------------------------------------------------------ C29

\* The products and costs the last call was not addressed to.
OtherSources(S) ==
  IF last.op = "deleteProduct"
  THEN [products |-> {p \in S.products : p.productId # last.id},
        costs    |-> S.additionalCosts]
  ELSE [products |-> S.products,
        costs    |-> {c \in S.additionalCosts : c.costId # last.id}]

\* C29: deleteProduct(p) / deleteCost(c), once returned true, has deleted
\* every pending payment that had a link to p / c, also one linked to other
\* products or costs as well; every other product and cost is still stored
\* as it was and no link row carries the id of a deleted payment; an
\* approved payment that was linked to p / c is stored as it was and has
\* lost its link rows to p / c and no other.
C29_SharedPending ==
  SourceDeleted =>
    /\ OtherSources(db) = OtherSources(pre)
    /\ \A pay \in pre.payments :
         LinkedToSource(pre, pay.paymentId) =>
           IF pay.status = "pending"
           THEN /\ ~\E q \in db.payments : q.paymentId = pay.paymentId
                /\ ~\E l \in DOMAIN db.paymentProductLinks
                              \cup DOMAIN db.paymentCostLinks :
                      l.paymentId = pay.paymentId
           ELSE /\ pay \in db.payments
                /\ ~LinkedToSource(db, pay.paymentId)
                /\ OtherLinksOf(db, pay.paymentId)
                     = OtherLinksOf(pre, pay.paymentId)

\* deleteProduct has deleted a product whose pending payment was also
\* linked to another product, which is still stored.
C29_Witness ==
  /\ last.op = "deleteProduct"
  /\ last.ret = "true"
  /\ \E pay \in pre.payments, q \in db.products :
       /\ pay.status = "pending"
       /\ LinkedToSource(pre, pay.paymentId)
       /\ BagIn([paymentId |-> pay.paymentId, productId |-> q.productId],
                pre.paymentProductLinks)
       /\ pay \notin db.payments

\* ------------------------------------------------------------------ C30

\* C30: within one deleteProduct or deleteCost no row is deleted twice: every
\* ctx.db.delete finds its row, so the call addressed to a stored product
\* or cost completes and returns true, also when a (payment, product) or
\* (payment, cost) pair is stored in more than one link row.
C30_CascadeCompletes ==
  /\ (/\ last.op = "deleteProduct"
      /\ \E p \in pre.products : p.productId = last.id) => last.ret = "true"
  /\ (/\ last.op = "deleteCost"
      /\ \E c \in pre.additionalCosts : c.costId = last.id) => last.ret = "true"

\* What does hold: the call completes when no pending payment holds the link
\* to the deleted source more than once.
C30_CompletesWithoutRepeats ==
  (/\ last.op \in {"deleteProduct", "deleteCost"}
   /\ last.ret = "throw") =>
    \E pay \in pre.payments :
      /\ pay.status = "pending"
      /\ IF last.op = "deleteProduct"
         THEN CopiesIn([paymentId |-> pay.paymentId, productId |-> last.id],
                       pre.paymentProductLinks) > 1
         ELSE CopiesIn([paymentId |-> pay.paymentId, costId |-> last.id],
                       pre.paymentCostLinks) > 1

====
